---- MODULE Spec2Model ----
(***************************************************************************)
(* The configuration-reconciliation pipeline of openperouter: the          *)
(* validators of internal/conversion, the status manager of                *)
(* internal/status and Reconcile/configureInterfaces of                    *)
(* internal/controller/routerconfiguration.                                *)
(*                                                                         *)
(* Go strings that the code inspects (interface names, resource names) are *)
(* sequences of one-character strings.  A CIDR text is a record            *)
(* [fam, ip, len]: the address as written (host bits included) and the     *)
(* prefix length as written; ParseCIDR decides whether it parses.          *)
(* An error value is the sequence of its wrap chain, outermost first; nil  *)
(* is the empty sequence.                                                  *)
(***************************************************************************)
EXTENDS Integers, Sequences, FiniteSets, TLC

VARIABLES
    apiConfig,            \* conversion.ApiConfigData handed to the pass
    hostHasUnderlay,      \* hostnetwork.HasUnderlayInterface(targetNamespace)
    pc,                   \* position of the pass
    l3idx,                \* next index of the range over config.L3VNIs
    l2idx,                \* next index of the range over config.L2VNIs
    retErr,               \* the error the pass returned (wrap chain)
    calls,                \* FRR and host-network calls of the pass, in order
    reports,              \* StatusReporter calls of the pass, in order
    failedResourceCache,  \* StatusManager.failedResourceCache
    triggerChannel,       \* number of events queued in StatusManager.triggerChannel
    ifName,               \* argument of isValidInterfaceName
    ifNameErr,            \* its result
    podReady,             \* router pod condition PodReady is True
    containersReady,      \* router pod condition ContainersReady is True
    result,               \* what PERouterReconciler.Reconcile returned
    mutex,                \* StatusManager.failedResourceCacheMutex
    reportPc,             \* position of the StatusReporter call in progress
    reportOp,             \* the StatusReporter call in progress
    wqDirty,              \* status controller workqueue: the key waits to be processed
    wqProcessing,         \* status controller workqueue: the key is being processed
    statusPc,             \* position of RouterNodeConfigurationStatusReconciler.Reconcile
    newStatus,            \* the status buildStatus returned to the pass
    crd,                  \* the node's RouterNodeConfigurationStatus object
    unobserved,           \* the cache changed since GetStatusSummary last read it
    apiErrors,            \* API server calls of the status reconciler that failed
    dropped,              \* the last trigger was dropped and the channel is still full
    fetched,              \* the object the r.Get of the status pass returned
    deletes,              \* deletions of the node's status object by others
    store,                \* the L3VNI and L3Passthrough objects the API server holds
    admissions,           \* the admission requests of the validating webhooks
    firstPass,            \* the host calls of the pass before this one, once it is over
    routerPod,            \* the router pod of the node, as the API server lists it
    passes,               \* the passes of the configuration controller so far
    summary,              \* a GetStatusSummary call of its own: where it is, what it read
    workers,              \* the goroutines that run the status reconciler, and what they patched
    startup               \* main at waitForKubernetes: the poll, the API server, the outcome

controllerVars ==
    <<podReady, containersReady, result>>

\* of the status object beside crd
objectVars ==
    <<fetched, deletes>>

\* of the webhooks, of a GetStatusSummary call of its own, of the
\* goroutines of the status controller, and of the start of main
besideVars ==
    <<store, admissions, summary, workers, startup>>

\* of the status reconciler and of the reporters
reconcilerVars ==
    <<mutex, reportPc, reportOp, wqDirty, wqProcessing, statusPc, newStatus, crd,
      unobserved, apiErrors, dropped, objectVars>>

\* the status reconciler, and what is beside the pass
statusVars ==
    <<reconcilerVars, besideVars, firstPass, routerPod, passes>>

vars ==
    <<apiConfig, hostHasUnderlay, pc, l3idx, l2idx, retErr, calls, reports,
      failedResourceCache, triggerChannel, ifName, ifNameErr, controllerVars, statusVars>>

pipelineVars ==
    <<apiConfig, hostHasUnderlay, pc, l3idx, l2idx, retErr, calls, reports,
      failedResourceCache, triggerChannel>>

----------------------------------------------------------------------------
(* Bounds of the model and constants of the program *)

\* address width of both families in the model (32 and 128 in the program)
AddrBits ==
    2

\* longest base name the name grammar is tried on, and longest padding
MaxBase ==
    2

MaxPad ==
    14

\* len(name) > 15 is rejected
MaxIfNameLen ==
    15

\* capacity of the trigger channel in the model (100 in the program:
\* make(chan event.GenericEvent, 100))
TriggerChannelCap ==
    3

----------------------------------------------------------------------------
(* Errors *)

NoError ==
    <<>>

\* fmt.Errorf("...: %w", err)
Wrap(msg, err) ==
    <<msg>> \o err

IsError(err) ==
    err # NoError

----------------------------------------------------------------------------
(* The parts of the state a specification leaves at rest *)

\* ctrl.Result{} with a nil error
NoResult ==
    [RequeueAfter |-> 0, err |-> NoError]

\* no StatusReporter call in progress
NoReportOp ==
    [op |-> "none", kind |-> "", name |-> <<>>, err |-> NoError]

\* the node the process runs on: r.MyNode
MyNode ==
    "node-1"

\* the namespace of the controller: r.MyNamespace
MyNamespace ==
    "openperouter-system"

\* the Node object of the node as the API server returns it
TheNode ==
    [Name |-> MyNode, UID |-> "uid-1"]

\* a Go slice: nil, or made with its elements
NilSlice ==
    [isNil |-> TRUE, elems |-> <<>>]

MakeSlice(elems) ==
    [isNil |-> FALSE, elems |-> elems]

\* a nil *metav1.Time and the zero metav1.Time
NoTime ==
    0

\* a message without arguments
Text(text) ==
    [text |-> text, count |-> 0]

\* the zero RouterNodeConfigurationStatusStatus
NoStatus ==
    [LastUpdateTime |-> NoTime, FailedResources |-> NilSlice, Conditions |-> NilSlice]

\* no RouterNodeConfigurationStatus object for the node
NoCRD ==
    [exists |-> FALSE, Name |-> "", Namespace |-> "", OwnerReferences |-> <<>>,
     Status |-> NoStatus]

\* the controller has not run: a ready router pod, nothing returned
ControllerIdle ==
    /\ podReady = TRUE
    /\ containersReady = TRUE
    /\ result = NoResult

\* the status reconciler has not run and no call is made on the StatusManager
StatusIdle ==
    /\ mutex = "free"
    /\ reportPc = "idle"
    /\ reportOp = NoReportOp
    /\ wqDirty = FALSE
    /\ wqProcessing = FALSE
    /\ statusPc = "idle"
    /\ newStatus = NoStatus
    /\ crd = NoCRD
    /\ unobserved = FALSE
    /\ apiErrors = 0
    /\ dropped = FALSE
    /\ fetched = NoCRD
    /\ deletes = 0

\* no GetStatusSummary call of its own in progress
NoSummary ==
    [pc |-> "idle", read |-> <<>>, instants |-> {}]

\* no goroutine of the status controller modelled
NoWorkers ==
    [pass |-> <<>>, version |-> 0, patched |-> 0]

\* main is past waitForKubernetes
Started ==
    [pc |-> "started", waitInterval |-> 0, sinceTick |-> 0, pings |-> 0, kubeconfig |-> TRUE,
     server |-> "up", config |-> TRUE, err |-> <<>>, lastErr |-> <<>>]

\* no pass before this one is over
NoFirstPass ==
    [done |-> FALSE, calls |-> <<>>, err |-> <<>>, hostHasUnderlay |-> FALSE]

\* no object stored, no admission request made, no pass over
OthersIdle ==
    /\ store = [L3VNIs |-> <<>>, L3Passthrough |-> <<>>]
    /\ admissions = <<>>
    /\ firstPass = NoFirstPass
    /\ routerPod = "Present"
    /\ passes = 0
    /\ summary = NoSummary
    /\ workers = NoWorkers
    /\ startup = Started

----------------------------------------------------------------------------
(* Interface names: isValidInterfaceName and its regular expression *)

Letters ==
    {"a","b","c","d","e","f","g","h","i","j","k","l","m",
     "n","o","p","q","r","s","t","u","v","w","x","y","z",
     "A","B","C","D","E","F","G","H","I","J","K","L","M",
     "N","O","P","Q","R","S","T","U","V","W","X","Y","Z"}

Digits ==
    {"0","1","2","3","4","5","6","7","8","9"}

\* ^[a-zA-Z][a-zA-Z0-9._-]*$ : Go's $ without the m flag matches at the end of
\* the text only, so the whole name is matched
interfaceNameRegexpMatch(name) ==
    /\ Len(name) >= 1
    /\ name[1] \in Letters
    /\ \A i \in 2..Len(name) : name[i] \in Letters \cup Digits \cup {".", "_", "-"}

\* a plausible slip: a name of exactly fifteen characters taken as too long
isValidInterfaceName_OffByOne(name) ==
    IF Len(name) = 0
        THEN <<"interface name cannot be empty">>
    ELSE IF Len(name) >= MaxIfNameLen
        THEN <<"interface name can't be longer than 15 characters">>
    ELSE IF ~interfaceNameRegexpMatch(name)
        THEN <<"interface name contains invalid characters">>
    ELSE NoError

isValidInterfaceName(name) ==
    IF Len(name) = 0
        THEN <<"interface name cannot be empty">>
    ELSE IF Len(name) > MaxIfNameLen
        THEN <<"interface name can't be longer than 15 characters">>
    ELSE IF ~interfaceNameRegexpMatch(name)
        THEN <<"interface name contains invalid characters">>
    ELSE NoError

----------------------------------------------------------------------------
(* CIDRs: net.ParseCIDR, IPNet.Contains, cidrsOverlap, isValidCIDR *)

Pow2(n) ==
    2 ^ n

EmptyCIDR ==
    [fam |-> "", ip |-> 0, len |-> 0]

\* a text that is no CIDR at all, such as "not-a-cidr"
GarbageCIDR ==
    [fam |-> "garbage", ip |-> 0, len |-> 0]

Families ==
    {"v4", "v6"}

\* every text "ip/len" of a family, the prefix lengths one past the width
\* included (such as 10.0.0.0/33)
CIDRTexts(fam) ==
    [fam : {fam}, ip : 0..(Pow2(AddrBits) - 1), len : 0..(AddrBits + 1)]

\* the address with its host bits cleared: IP.Mask(mask)
MaskIP(ip, len) ==
    ip - (ip % Pow2(AddrBits - len))

\* net.ParseCIDR: the address as written and the network it lies in
ParseCIDR(text) ==
    IF text.fam \in Families /\ text.len <= AddrBits
        THEN [err |-> NoError,
              ip |-> text.ip,
              ipNet |-> [fam |-> text.fam, base |-> MaskIP(text.ip, text.len), len |-> text.len]]
        ELSE [err |-> <<"invalid CIDR address">>,
              ip |-> 0,
              ipNet |-> [fam |-> "", base |-> 0, len |-> 0]]

\* IPNet.Contains(ip): never true across families
Contains(ipNet, fam, ip) ==
    /\ ipNet.fam = fam
    /\ MaskIP(ip, ipNet.len) = ipNet.base

\* a plausible slip: only one direction of the containment is tested
cidrsOverlap_OneWay(cidr1, cidr2) ==
    LET p1 == ParseCIDR(cidr1)
        p2 == ParseCIDR(cidr2)
    IN  IF IsError(p1.err) THEN [overlap |-> FALSE, err |-> Wrap("invalid CIDR", p1.err)]
        ELSE IF IsError(p2.err) THEN [overlap |-> FALSE, err |-> Wrap("invalid CIDR", p2.err)]
        ELSE [overlap |-> Contains(p2.ipNet, cidr1.fam, p1.ip), err |-> NoError]

cidrsOverlap(cidr1, cidr2) ==
    LET p1 == ParseCIDR(cidr1)
        p2 == ParseCIDR(cidr2)
    IN  IF IsError(p1.err) THEN [overlap |-> FALSE, err |-> Wrap("invalid CIDR", p1.err)]
        ELSE IF IsError(p2.err) THEN [overlap |-> FALSE, err |-> Wrap("invalid CIDR", p2.err)]
        ELSE [overlap |-> \/ Contains(p1.ipNet, cidr2.fam, p2.ip)
                          \/ Contains(p2.ipNet, cidr1.fam, p1.ip),
              err |-> NoError]

isValidCIDR(cidr) ==
    IF cidr = EmptyCIDR
        THEN <<"CIDR cannot be empty">>
    ELSE IF IsError(ParseCIDR(cidr).err)
        THEN Wrap("invalid CIDR", ParseCIDR(cidr).err)
    ELSE NoError

----------------------------------------------------------------------------
(* internal/status: the StatusManager behind the StatusReporter interface.  *)
(* Its state is sm = [failedResourceCache, triggerChannel]; the cache is    *)
(* the set of its entries, at most one for a key kind:name.                 *)

UnderlayKind ==
    "Underlay"

L2VNIKind ==
    "L2VNI"

L3VNIKind ==
    "L3VNI"

L3PassthroughKind ==
    "L3Passthrough"

ResourceKinds ==
    {UnderlayKind, L2VNIKind, L3VNIKind, L3PassthroughKind}

\* select { case ch <- event: default: dropped }
\* a plausible slip: the trigger is not sent
sendTriggerEvent_NoSend(ch) ==
    ch

sendTriggerEvent(ch) ==
    IF ch < TriggerChannelCap THEN ch + 1 ELSE ch

\* a plausible slip: no initial trigger
NewStatusManager_NoTrigger ==
    [failedResourceCache |-> {}, triggerChannel |-> 0]

\* the state NewStatusManager leaves: an empty cache and the initial trigger
NewStatusManager ==
    [failedResourceCache |-> {}, triggerChannel |-> sendTriggerEvent(0)]

\* the keys of the cache
CacheKeys(cache) ==
    {<<e.ResourceKind, e.ResourceName>> : e \in cache}

\* delete(er.failedResourceCache, key)
CacheWithout(cache, key) ==
    {e \in cache : <<e.ResourceKind, e.ResourceName>> # key}

ReportResourceSuccess(sm, kind, resourceName) ==
    [failedResourceCache |-> CacheWithout(sm.failedResourceCache, <<kind, resourceName>>),
     triggerChannel |-> sendTriggerEvent(sm.triggerChannel)]

\* fmt.Sprintf("failed: %v", err)
errorMessage(err) ==
    <<"failed">> \o err

\* a plausible slip: an entry that exists is not overwritten
ReportResourceFailure_KeepsFirst(sm, kind, resourceName, err) ==
    LET key == <<kind, resourceName>>
        entry == [ResourceKind |-> kind, ResourceName |-> resourceName,
                  ErrorMessage |-> errorMessage(err)]
    IN  [failedResourceCache |-> IF key \in CacheKeys(sm.failedResourceCache)
                                     THEN sm.failedResourceCache
                                     ELSE sm.failedResourceCache \cup {entry},
         triggerChannel |-> sendTriggerEvent(sm.triggerChannel)]

ReportResourceFailure(sm, kind, resourceName, err) ==
    LET key == <<kind, resourceName>>
        entry == [ResourceKind |-> kind, ResourceName |-> resourceName,
                  ErrorMessage |-> errorMessage(err)]
    IN  [failedResourceCache |-> CacheWithout(sm.failedResourceCache, key) \cup {entry},
         triggerChannel |-> sendTriggerEvent(sm.triggerChannel)]

ReportResourceRemoved(sm, kind, resourceName) ==
    LET key == <<kind, resourceName>>
        existed == key \in CacheKeys(sm.failedResourceCache)
    IN  [failedResourceCache |-> CacheWithout(sm.failedResourceCache, key),
         triggerChannel |-> IF existed THEN sendTriggerEvent(sm.triggerChannel)
                                       ELSE sm.triggerChannel]

\* One call on the StatusReporter, as the validators and the pipeline make it
FailureReport(kind, resourceName, err) ==
    [op |-> "Failure", kind |-> kind, name |-> resourceName, err |-> err]

SuccessReport(kind, resourceName) ==
    [op |-> "Success", kind |-> kind, name |-> resourceName, err |-> NoError]

ApplyReport(sm, r) ==
    IF r.op = "Failure" THEN ReportResourceFailure(sm, r.kind, r.name, r.err)
    ELSE IF r.op = "Success" THEN ReportResourceSuccess(sm, r.kind, r.name)
    ELSE ReportResourceRemoved(sm, r.kind, r.name)

RECURSIVE ApplyReports(_, _)
ApplyReports(sm, rs) ==
    IF rs = <<>> THEN sm ELSE ApplyReports(ApplyReport(sm, Head(rs)), Tail(rs))

\* what a validator hands back: the error and the reports it made on the way
Outcome(err, rs) ==
    [err |-> err, reports |-> rs]

Passed ==
    Outcome(NoError, <<>>)

\* statusReporter.ReportResourceFailure(kind, name, err); return err
Rejected(kind, resourceName, err) ==
    Outcome(err, <<FailureReport(kind, resourceName, err)>>)

----------------------------------------------------------------------------
(* validate_underlay.go *)

\* the checks of one Underlay, in the order of the loop body
validateOneUnderlay(underlay) ==
    IF underlay.ASN = 0
        THEN Rejected(UnderlayKind, underlay.Name, <<"underlay must have a valid ASN">>)
    ELSE IF \E i \in 1..Len(underlay.Neighbors) : underlay.Neighbors[i] = underlay.ASN
        THEN Rejected(UnderlayKind, underlay.Name,
                      <<"underlay local ASN must be different from remote ASN">>)
    ELSE IF underlay.EVPN.set /\ IsError(ParseCIDR(underlay.EVPN.VTEPCIDR).err)
        THEN Rejected(UnderlayKind, underlay.Name,
                      Wrap("invalid vtep CIDR format for underlay",
                           ParseCIDR(underlay.EVPN.VTEPCIDR).err))
    ELSE IF Len(underlay.Nics) > 1
        THEN Rejected(UnderlayKind, underlay.Name, <<"underlay can only have one nic">>)
    ELSE IF \E i \in 1..Len(underlay.Nics) : IsError(isValidInterfaceName(underlay.Nics[i]))
        THEN LET i == CHOOSE j \in 1..Len(underlay.Nics) :
                        /\ IsError(isValidInterfaceName(underlay.Nics[j]))
                        /\ \A k \in 1..(j - 1) : ~IsError(isValidInterfaceName(underlay.Nics[k]))
             IN  Rejected(UnderlayKind, underlay.Name,
                          Wrap("invalid nic name for underlay",
                               isValidInterfaceName(underlay.Nics[i])))
    ELSE Passed

RECURSIVE validateUnderlaysFrom(_, _)
validateUnderlaysFrom(underlays, i) ==
    IF i > Len(underlays) THEN Passed
    ELSE LET o == validateOneUnderlay(underlays[i])
         IN  IF IsError(o.err) THEN o ELSE validateUnderlaysFrom(underlays, i + 1)

\* a plausible slip: the count check dropped
ValidateUnderlays_NoCount(underlays) ==
    validateUnderlaysFrom(underlays, 1)

ValidateUnderlays(underlays) ==
    IF Len(underlays) > 1
        THEN Outcome(<<"can't have more than one underlay">>, <<>>)
        ELSE validateUnderlaysFrom(underlays, 1)

----------------------------------------------------------------------------
(* validate_vni.go *)

\* a Go map with no entry
EmptyMap ==
    [k \in {} |-> <<>>]

\* L2VNI.VRFName(): the VRF the object names, and its own name without one
VRFName(l2vni) ==
    IF l2vni.VRF.set /\ l2vni.VRF.name # <<>> THEN l2vni.VRF.name ELSE l2vni.Name

vnisFromL3VNIs(l3vnis) ==
    [i \in 1..Len(l3vnis) |->
        [name |-> l3vnis[i].Name, vni |-> l3vnis[i].VNI, vrfName |-> l3vnis[i].VRF]]

vnisFromL2VNIs(l2vnis) ==
    [i \in 1..Len(l2vnis) |->
        [name |-> l2vnis[i].Name, vni |-> l2vnis[i].VNI, vrfName |-> VRFName(l2vnis[i])]]

\* the loop of validateVNIs from entry i on, with the two maps as they stand
RECURSIVE validateVNIsFrom(_, _, _, _, _)
validateVNIsFrom(vnis, i, existingVrfs, existingVNIs, kind) ==
    IF i > Len(vnis) THEN Passed
    ELSE LET vni == vnis[i]
         IN  IF IsError(isValidInterfaceName(vni.vrfName))
                 THEN Rejected(kind, vni.name,
                               Wrap("invalid vrf name for vni", isValidInterfaceName(vni.vrfName)))
             ELSE IF vni.vrfName \in DOMAIN existingVrfs
                 THEN Rejected(kind, vni.name, <<"duplicate vrf">>)
             ELSE IF vni.vni \in DOMAIN existingVNIs
                 THEN Rejected(kind, vni.name, <<"duplicate vni">>)
             ELSE validateVNIsFrom(vnis, i + 1,
                                   (vni.vrfName :> vni.name) @@ existingVrfs,
                                   (vni.vni :> vni.name) @@ existingVNIs,
                                   kind)

\* a plausible slip: the duplicate is reported under the entry already in the map
RECURSIVE validateVNIsFrom_ReportsExisting(_, _, _, _, _)
validateVNIsFrom_ReportsExisting(vnis, i, existingVrfs, existingVNIs, kind) ==
    IF i > Len(vnis) THEN Passed
    ELSE LET vni == vnis[i]
         IN  IF IsError(isValidInterfaceName(vni.vrfName))
                 THEN Rejected(kind, vni.name,
                               Wrap("invalid vrf name for vni", isValidInterfaceName(vni.vrfName)))
             ELSE IF vni.vrfName \in DOMAIN existingVrfs
                 THEN Rejected(kind, existingVrfs[vni.vrfName], <<"duplicate vrf">>)
             ELSE IF vni.vni \in DOMAIN existingVNIs
                 THEN Rejected(kind, existingVNIs[vni.vni], <<"duplicate vni">>)
             ELSE validateVNIsFrom_ReportsExisting(vnis, i + 1,
                                   (vni.vrfName :> vni.name) @@ existingVrfs,
                                   (vni.vni :> vni.name) @@ existingVNIs,
                                   kind)

validateVNIs_ReportsExisting(vnis, kind) ==
    validateVNIsFrom_ReportsExisting(vnis, 1, EmptyMap, EmptyMap, kind)

validateVNIs(vnis, kind) ==
    validateVNIsFrom(vnis, 1, EmptyMap, EmptyMap, kind)

ValidateL3VNIs(l3Vnis) ==
    validateVNIs(vnisFromL3VNIs(l3Vnis), L3VNIKind)

\* ipfamily.ForCIDRStrings: every text parses and no two are of one family
ForCIDRStrings(cidrs) ==
    IF \E i \in 1..Len(cidrs) : IsError(ParseCIDR(cidrs[i]).err)
        THEN <<"invalid CIDR">>
    ELSE IF \E i, j \in 1..Len(cidrs) : i < j /\ cidrs[i].fam = cidrs[j].fam
        THEN <<"more than one CIDR of a family">>
    ELSE NoError

\* the L2-specific checks of one L2VNI: HostMaster name, then L2GatewayIPs
validateOneL2VNI(vni) ==
    IF /\ vni.HostMaster.set
       /\ vni.HostMaster.Name # <<>>
       /\ IsError(isValidInterfaceName(vni.HostMaster.Name))
        THEN Rejected(L2VNIKind, vni.Name,
                      Wrap("invalid hostmaster name for vni",
                           isValidInterfaceName(vni.HostMaster.Name)))
    ELSE IF Len(vni.L2GatewayIPs) > 0 /\ IsError(ForCIDRStrings(vni.L2GatewayIPs))
        THEN Rejected(L2VNIKind, vni.Name,
                      Wrap("invalid l2gatewayips for vni", ForCIDRStrings(vni.L2GatewayIPs)))
    ELSE Passed

RECURSIVE validateL2SpecificFrom(_, _)
validateL2SpecificFrom(l2Vnis, i) ==
    IF i > Len(l2Vnis) THEN Passed
    ELSE LET o == validateOneL2VNI(l2Vnis[i])
         IN  IF IsError(o.err) THEN o ELSE validateL2SpecificFrom(l2Vnis, i + 1)

ValidateL2VNIs(l2Vnis) ==
    LET common == validateVNIs(vnisFromL2VNIs(l2Vnis), L2VNIKind)
    IN  IF IsError(common.err) THEN common ELSE validateL2SpecificFrom(l2Vnis, 1)

----------------------------------------------------------------------------
(* validate_hostsession.go *)

\* the hostSessionInfo list: the L3VNIs that have a HostSession, in order,
\* then the L3Passthroughs
RECURSIVE sessionsOfL3VNIs(_)
sessionsOfL3VNIs(l3VNIs) ==
    IF l3VNIs = <<>> THEN <<>>
    ELSE IF ~Head(l3VNIs).HostSession.set THEN sessionsOfL3VNIs(Tail(l3VNIs))
    ELSE <<[HostSession |-> Head(l3VNIs).HostSession,
            resourceKind |-> L3VNIKind,
            resourceName |-> Head(l3VNIs).Name]>> \o sessionsOfL3VNIs(Tail(l3VNIs))

sessionsOfPassthroughs(l3Passthrough) ==
    [i \in 1..Len(l3Passthrough) |->
        [HostSession |-> l3Passthrough[i].HostSession,
         resourceKind |-> L3PassthroughKind,
         resourceName |-> l3Passthrough[i].Name]]

hostSessionInfos(l3VNIs, l3Passthrough) ==
    sessionsOfL3VNIs(l3VNIs) \o sessionsOfPassthroughs(l3Passthrough)

\* hostSessionInfo.Name()
SessionName(s) ==
    <<s.resourceKind, s.resourceName>>

\* validateCIDR: the map is ranged over in no fixed order; every order ends
\* in the same report and differs in the message alone
validateCIDR(session, cidr, existingCIDRs) ==
    IF IsError(isValidCIDR(cidr))
        THEN Rejected(session.resourceKind, session.resourceName,
                      Wrap("invalid local CIDR", isValidCIDR(cidr)))
    ELSE IF \E existing \in DOMAIN existingCIDRs : IsError(cidrsOverlap(existing, cidr).err)
        THEN Rejected(session.resourceKind, session.resourceName, <<"invalid CIDR">>)
    ELSE IF \E existing \in DOMAIN existingCIDRs : cidrsOverlap(existing, cidr).overlap
        THEN Rejected(session.resourceKind, session.resourceName, <<"overlapping cidrs">>)
    ELSE Passed

\* the loop of ValidateHostSessions from session i on
RECURSIVE validateHostSessionsFrom(_, _, _, _)
validateHostSessionsFrom(hostSessions, i, existingCIDRsV4, existingCIDRsV6) ==
    IF i > Len(hostSessions) THEN Passed
    ELSE LET s == hostSessions[i]
             hs == s.HostSession
             v4 == IF hs.IPv4 # EmptyCIDR
                       THEN validateCIDR(s, hs.IPv4, existingCIDRsV4)
                       ELSE Passed
             mapV4 == IF hs.IPv4 # EmptyCIDR
                          THEN (hs.IPv4 :> SessionName(s)) @@ existingCIDRsV4
                          ELSE existingCIDRsV4
             v6 == IF hs.IPv6 # EmptyCIDR
                       THEN validateCIDR(s, hs.IPv6, existingCIDRsV6)
                       ELSE Passed
             mapV6 == IF hs.IPv6 # EmptyCIDR
                          THEN (hs.IPv6 :> SessionName(s)) @@ existingCIDRsV6
                          ELSE existingCIDRsV6
         IN  IF hs.HostASN = hs.ASN
                 THEN Rejected(s.resourceKind, s.resourceName,
                               <<"local ASN must be different from remote ASN">>)
             ELSE IF IsError(v4.err) THEN v4
             ELSE IF IsError(v6.err) THEN v6
             ELSE IF hs.IPv4 = EmptyCIDR /\ hs.IPv6 = EmptyCIDR
                 THEN Rejected(s.resourceKind, s.resourceName,
                               <<"at least one local CIDR (IPv4 or IPv6) must be provided">>)
             ELSE validateHostSessionsFrom(hostSessions, i + 1, mapV4, mapV6)

\* a plausible slip: the ASN comparison left out
RECURSIVE validateHostSessionsFrom_NoASN(_, _, _, _)
validateHostSessionsFrom_NoASN(hostSessions, i, existingCIDRsV4, existingCIDRsV6) ==
    IF i > Len(hostSessions) THEN Passed
    ELSE LET s == hostSessions[i]
             hs == s.HostSession
             v4 == IF hs.IPv4 # EmptyCIDR
                       THEN validateCIDR(s, hs.IPv4, existingCIDRsV4)
                       ELSE Passed
             mapV4 == IF hs.IPv4 # EmptyCIDR
                          THEN (hs.IPv4 :> SessionName(s)) @@ existingCIDRsV4
                          ELSE existingCIDRsV4
             v6 == IF hs.IPv6 # EmptyCIDR
                       THEN validateCIDR(s, hs.IPv6, existingCIDRsV6)
                       ELSE Passed
             mapV6 == IF hs.IPv6 # EmptyCIDR
                          THEN (hs.IPv6 :> SessionName(s)) @@ existingCIDRsV6
                          ELSE existingCIDRsV6
         IN  IF IsError(v4.err) THEN v4
             ELSE IF IsError(v6.err) THEN v6
             ELSE IF hs.IPv4 = EmptyCIDR /\ hs.IPv6 = EmptyCIDR
                 THEN Rejected(s.resourceKind, s.resourceName,
                               <<"at least one local CIDR (IPv4 or IPv6) must be provided">>)
             ELSE validateHostSessionsFrom_NoASN(hostSessions, i + 1, mapV4, mapV6)

ValidateHostSessions_NoASN(l3VNIs, l3Passthrough) ==
    validateHostSessionsFrom_NoASN(hostSessionInfos(l3VNIs, l3Passthrough), 1,
                                   EmptyMap, EmptyMap)

ValidateHostSessions(l3VNIs, l3Passthrough) ==
    validateHostSessionsFrom(hostSessionInfos(l3VNIs, l3Passthrough), 1, EmptyMap, EmptyMap)

----------------------------------------------------------------------------
(* host_config.go: the helpers of configureInterfaces *)

UnderlayRemovedError ==
    "UnderlayRemovedError"

\* hostnetwork.UnderlayExistsError
UnderlayExistsError ==
    "UnderlayExistsError"

\* a plausible slip: the host-network layer's error is not looked for
nonRecoverableHostError_RemovedOnly(e) ==
    \E i \in 1..Len(e) : e[i] = UnderlayRemovedError

\* a plausible slip: only the outermost error is looked at
nonRecoverableHostError_NoUnwrap(e) ==
    Len(e) >= 1 /\ e[1] \in {UnderlayRemovedError, UnderlayExistsError}

\* errors.As(e, &UnderlayRemovedError{}) || errors.As(e, &underlayExistsError)
nonRecoverableHostError(e) ==
    \E i \in 1..Len(e) : e[i] \in {UnderlayRemovedError, UnderlayExistsError}

\* conversion.APItoHostConfig: one VRF/VXLAN descriptor for each L3VNI and each
\* L2VNI, carrying its VNI, in the order of the declared resources
APItoHostConfig(config) ==
    [Underlay |-> IF Len(config.Underlays) > 0 THEN config.Underlays[1].Name ELSE <<>>,
     L3VNIs |-> [i \in 1..Len(config.L3VNIs) |->
                    [VNI |-> config.L3VNIs[i].VNI, VRF |-> config.L3VNIs[i].VRF]],
     L2VNIs |-> [i \in 1..Len(config.L2VNIs) |-> [VNI |-> config.L2VNIs[i].VNI]],
     L3Passthrough |-> Len(config.L3Passthrough) > 0]

\* findHostL3VNI / findHostL2VNI: whether a descriptor with the VNI is found
findHostVNI(hostVNIs, vni) ==
    \E i \in 1..Len(hostVNIs) : hostVNIs[i].VNI = vni

\* a plausible slip: the loop over the L2VNIs is missing
toCheck_L3Only(hostConfig) ==
    [i \in 1..Len(hostConfig.L3VNIs) |-> hostConfig.L3VNIs[i].VNI]

\* the VNIs RemoveNonConfiguredVNIs is told to keep
toCheck(hostConfig) ==
    [i \in 1..Len(hostConfig.L3VNIs) |-> hostConfig.L3VNIs[i].VNI]
        \o [i \in 1..Len(hostConfig.L2VNIs) |-> hostConfig.L2VNIs[i].VNI]

\* one call on the FRR updater or on the host-network layer
Call(fn, arg, ok) ==
    [fn |-> fn, arg |-> arg, ok |-> ok]

\* the host-network calls that change the target namespace
HostMutations ==
    {"EnsureIPv6Forwarding", "SetupUnderlay", "SetupL3VNI", "SetupL2VNI",
     "SetupPassthrough", "RemoveNonConfiguredVNIs", "RemovePassthrough"}

HostCalls ==
    HostMutations \cup {"HasUnderlayInterface"}

----------------------------------------------------------------------------
(* The resource sets the model runs on *)

\* longest L3VNI and L2VNI list of a pass
MaxPassVNIs ==
    2

\* longest list the VNI validators are tried on
MaxVNIs ==
    3

NoHostSession ==
    [set |-> FALSE, ASN |-> 0, HostASN |-> 0, IPv4 |-> EmptyCIDR, IPv6 |-> EmptyCIDR]

HostSession(asn, hostASN, ipv4, ipv6) ==
    [set |-> TRUE, ASN |-> asn, HostASN |-> hostASN, IPv4 |-> ipv4, IPv6 |-> ipv6]

NoEVPN ==
    [set |-> FALSE, VTEPCIDR |-> EmptyCIDR]

EVPN(vtepCIDR) ==
    [set |-> TRUE, VTEPCIDR |-> vtepCIDR]

NoVRF ==
    [set |-> FALSE, name |-> <<>>]

VRF(name) ==
    [set |-> TRUE, name |-> name]

NoHostMaster ==
    [set |-> FALSE, Name |-> <<>>]

HostMaster(name) ==
    [set |-> TRUE, Name |-> name]

Underlay(name, asn, neighbors, evpn, nics) ==
    [Name |-> name, ASN |-> asn, Neighbors |-> neighbors, EVPN |-> evpn, Nics |-> nics]

L3VNI(name, vrf, vni, hostSession) ==
    [Name |-> name, VRF |-> vrf, VNI |-> vni, HostSession |-> hostSession]

L2VNI(name, vrf, vni, hostMaster, gatewayIPs) ==
    [Name |-> name, VRF |-> vrf, VNI |-> vni, HostMaster |-> hostMaster,
     L2GatewayIPs |-> gatewayIPs]

L3Passthrough(name, hostSession) ==
    [Name |-> name, HostSession |-> hostSession]

ApiConfig(underlays, l3vnis, l2vnis, passthroughs) ==
    [Underlays |-> underlays, L3VNIs |-> l3vnis, L2VNIs |-> l2vnis,
     L3Passthrough |-> passthroughs]

\* names: the i-th resource of a list is named after its place, as the names
\* of one kind are distinct in the cluster
Digit(i) ==
    <<"0","1","2","3","4","5","6","7","8","9">>[i + 1]

L3Name(i) ==
    <<"l", "3", "-", Digit(i)>>

L2Name(i) ==
    <<"l", "2", "-", Digit(i)>>

UnderlayName(i) ==
    <<"u", Digit(i)>>

PassthroughName ==
    <<"p", "t">>

Red ==
    <<"r", "e", "d">>

Blue ==
    <<"b", "l", "u", "e">>

Green ==
    <<"g", "r", "n">>

Eth0 ==
    <<"e", "t", "h", "0">>

\* a VLAN sub-interface
Eno2161 ==
    <<"e", "n", "o", "2", ".", "1", "6", "1">>

DotFirst ==
    <<".", "x">>

RECURSIVE Pad(_)
Pad(n) ==
    IF n = 0 THEN <<>> ELSE <<"a">> \o Pad(n - 1)

\* sixteen characters
TooLong ==
    <<"e", "n", "o">> \o Pad(13)

\* sequences over S of length at most n
SeqUpTo(S, n) ==
    UNION {[1..k -> S] : k \in 0..n}

\* sample CIDR texts: 0/1 and 1/AddrBits overlap, 0/1 and the last address
\* at full length do not
NetLow(fam) ==
    [fam |-> fam, ip |-> 0, len |-> 1]

HostLow(fam) ==
    [fam |-> fam, ip |-> 1, len |-> AddrBits]

HostHigh(fam) ==
    [fam |-> fam, ip |-> Pow2(AddrBits) - 1, len |-> AddrBits]

GoodUnderlay(i) ==
    Underlay(UnderlayName(i), 1, <<2>>, EVPN(NetLow("v4")), <<Eth0>>)

\* a neighbor with the local ASN
BadUnderlay ==
    Underlay(UnderlayName(1), 1, <<1>>, EVPN(NetLow("v4")), <<Eth0>>)

\* the i-th L3VNI's own session network: one address, distinct for each i
GoodL3Session(i) ==
    HostSession(2, 1, [fam |-> "v4", ip |-> (i - 1) % Pow2(AddrBits), len |-> AddrBits],
                EmptyCIDR)

GoodPassthrough ==
    L3Passthrough(PassthroughName, HostSession(2, 1, EmptyCIDR, NetLow("v6")))

\* local ASN equal to the host ASN
BadPassthrough ==
    L3Passthrough(PassthroughName, HostSession(1, 1, EmptyCIDR, NetLow("v6")))

(* The resource sets of a pass *)

PassUnderlays ==
    {<<>>, <<GoodUnderlay(1)>>, <<BadUnderlay>>, <<GoodUnderlay(1), GoodUnderlay(2)>>}

PassL3Choices ==
    {<<Red, 1>>, <<Red, 2>>, <<Blue, 2>>} \X {TRUE, FALSE}

PassL3VNI(i, c) ==
    L3VNI(L3Name(i), c[1][1], c[1][2], IF c[2] THEN GoodL3Session(i) ELSE NoHostSession)

\* an L2VNI without a VRF is its own VRF; 1 is a VNI an L3VNI may carry too
PassL2Choices ==
    {<<1, NoHostMaster>>, <<3, NoHostMaster>>, <<3, HostMaster(DotFirst)>>}

PassL2VNI(i, c) ==
    L2VNI(L2Name(i), NoVRF, c[1], c[2], <<>>)

PassPassthroughs ==
    {<<>>, <<GoodPassthrough>>, <<BadPassthrough>>}

IsPassConfig(config) ==
    \E k3 \in 0..MaxPassVNIs, k2 \in 0..MaxPassVNIs :
        \E c3 \in [1..k3 -> PassL3Choices], c2 \in [1..k2 -> PassL2Choices] :
            \E u \in PassUnderlays, pt \in PassPassthroughs :
                config = ApiConfig(u,
                                   [i \in 1..k3 |-> PassL3VNI(i, c3[i])],
                                   [i \in 1..k2 |-> PassL2VNI(i, c2[i])],
                                   pt)

----------------------------------------------------------------------------
(* reconcile.go and host_config.go: one pass of Reconcile, a step for each  *)
(* call it makes.  pc names the call the pass is about to make.             *)

sm ==
    [failedResourceCache |-> failedResourceCache, triggerChannel |-> triggerChannel]

\* the StatusReporter calls rs are made, in order
Reporting(rs) ==
    /\ failedResourceCache' = ApplyReports(sm, rs).failedResourceCache
    /\ triggerChannel' = ApplyReports(sm, rs).triggerChannel
    /\ reports' = reports \o rs

NoReporting ==
    UNCHANGED <<failedResourceCache, triggerChannel, reports>>

\* return err
Return(err) ==
    /\ pc' = "done"
    /\ retErr' = err

Goto(next) ==
    /\ pc' = next
    /\ retErr' = retErr

\* Reconcile wraps what configureInterfaces returns
HostError(err) ==
    Wrap("failed to configure the host", err)

\* a plausible slip: the validator's error is dropped
ValidationStep_ErrorIgnored(at, outcome, msg, next) ==
    /\ pc = at
    /\ Reporting(outcome.reports)
    /\ Goto(next)
    /\ UNCHANGED <<apiConfig, hostHasUnderlay, l3idx, l2idx, calls, ifName, ifNameErr,
                   controllerVars, statusVars>>

\* a plausible slip: a rejected set is recorded against every Underlay as well
ValidationStep_BlamesUnderlays(at, outcome, msg, next) ==
    /\ pc = at
    /\ IF IsError(outcome.err)
           THEN /\ Reporting(outcome.reports
                        \o [i \in 1..Len(apiConfig.Underlays) |->
                                FailureReport(UnderlayKind, apiConfig.Underlays[i].Name,
                                              outcome.err)])
                /\ Return(Wrap(msg, outcome.err))
           ELSE /\ Reporting(outcome.reports)
                /\ Goto(next)
    /\ UNCHANGED <<apiConfig, hostHasUnderlay, l3idx, l2idx, calls, ifName, ifNameErr,
                   controllerVars, statusVars>>

\* one validation statement of Reconcile: run the validator, return its
\* error wrapped, or go on
ValidationStep(at, outcome, msg, next) ==
    /\ pc = at
    /\ Reporting(outcome.reports)
    /\ IF IsError(outcome.err) THEN Return(Wrap(msg, outcome.err)) ELSE Goto(next)
    /\ UNCHANGED <<apiConfig, hostHasUnderlay, l3idx, l2idx, calls, ifName, ifNameErr,
                   controllerVars, statusVars>>

ReconcileValidateUnderlays ==
    ValidationStep("ValidateUnderlays", ValidateUnderlays(apiConfig.Underlays),
                   "failed to validate underlays", "ValidateL3VNIs")

ReconcileValidateL3VNIs ==
    ValidationStep("ValidateL3VNIs", ValidateL3VNIs(apiConfig.L3VNIs),
                   "failed to validate l3vnis", "ValidateL2VNIs")

ReconcileValidateL2VNIs ==
    ValidationStep("ValidateL2VNIs", ValidateL2VNIs(apiConfig.L2VNIs),
                   "failed to validate l2vnis", "ValidateHostSessions")

ReconcileValidateHostSessions ==
    ValidationStep("ValidateHostSessions",
                   ValidateHostSessions(apiConfig.L3VNIs, apiConfig.L3Passthrough),
                   "failed to validate host sessions", "configureFRR")

\* configureFRR: the rendered configuration is handed to the updater
ConfigureFRR ==
    /\ pc = "configureFRR"
    /\ \E ok \in BOOLEAN :
        /\ calls' = Append(calls, Call("FRRUpdate", <<>>, ok))
        /\ IF ok THEN Goto("HasUnderlayInterface")
                 ELSE Return(Wrap("failed to reload frr config", <<"frr update failed">>))
    /\ NoReporting
    /\ UNCHANGED <<apiConfig, hostHasUnderlay, l3idx, l2idx, ifName, ifNameErr,
                   controllerVars, statusVars>>

\* the stage of configureInterfaces that follows the L2VNI loop
AfterL2VNIs ==
    IF Len(apiConfig.L3Passthrough) > 0 THEN "SetupPassthrough" ELSE "RemoveNonConfiguredVNIs"

\* the stage that follows the L3VNI loop
AfterL3VNIs ==
    IF Len(apiConfig.L2VNIs) > 0 THEN "SetupL2VNI" ELSE AfterL2VNIs

\* the stage that follows the setup of the Underlay
AfterUnderlay ==
    IF Len(apiConfig.L3VNIs) > 0 THEN "SetupL3VNI" ELSE AfterL3VNIs

\* a plausible slip: an underlay in the namespace is taken as removed without
\* looking at the configured ones
HasUnderlayInterface_RemovedWhenPresent ==
    /\ pc = "HasUnderlayInterface"
    /\ \E ok \in BOOLEAN :
        /\ calls' = Append(calls, Call("HasUnderlayInterface", <<>>, ok))
        /\ IF ~ok
               THEN Return(HostError(Wrap("failed to check if target namespace has underlay",
                                          <<"host error">>)))
           ELSE IF hostHasUnderlay
               THEN Return(HostError(<<UnderlayRemovedError>>))
           ELSE IF Len(apiConfig.Underlays) = 0
               THEN Return(NoError)
           ELSE Goto("APItoHostConfig")
    /\ NoReporting
    /\ UNCHANGED <<apiConfig, hostHasUnderlay, l3idx, l2idx, ifName, ifNameErr,
                   controllerVars, statusVars>>

\* a plausible slip: the return for an empty Underlay list left out
HasUnderlayInterface_NoEarlyReturn ==
    /\ pc = "HasUnderlayInterface"
    /\ \E ok \in BOOLEAN :
        /\ calls' = Append(calls, Call("HasUnderlayInterface", <<>>, ok))
        /\ IF ~ok
               THEN Return(HostError(Wrap("failed to check if target namespace has underlay",
                                          <<"host error">>)))
           ELSE IF hostHasUnderlay /\ Len(apiConfig.Underlays) = 0
               THEN Return(HostError(<<UnderlayRemovedError>>))
           ELSE Goto("APItoHostConfig")
    /\ NoReporting
    /\ UNCHANGED <<apiConfig, hostHasUnderlay, l3idx, l2idx, ifName, ifNameErr,
                   controllerVars, statusVars>>

\* the first lines of configureInterfaces
HasUnderlayInterface ==
    /\ pc = "HasUnderlayInterface"
    /\ \E ok \in BOOLEAN :
        /\ calls' = Append(calls, Call("HasUnderlayInterface", <<>>, ok))
        /\ IF ~ok
               THEN Return(HostError(Wrap("failed to check if target namespace has underlay",
                                          <<"host error">>)))
           ELSE IF hostHasUnderlay /\ Len(apiConfig.Underlays) = 0
               THEN Return(HostError(<<UnderlayRemovedError>>))
           ELSE IF Len(apiConfig.Underlays) = 0
               THEN Return(NoError)
           ELSE Goto("APItoHostConfig")
    /\ NoReporting
    /\ UNCHANGED <<apiConfig, hostHasUnderlay, l3idx, l2idx, ifName, ifNameErr,
                   controllerVars, statusVars>>

\* what conversion.APItoHostConfig returns for the resource set: a function
\* of the set, so a second pass over the same set gets what the first got
ConversionError ==
    HostError(Wrap("failed to convert config to host configuration", <<"conversion error">>))

Converts ==
    IF firstPass.done /\ firstPass.err = ConversionError THEN {FALSE}
    ELSE IF /\ firstPass.done
            /\ \E i \in DOMAIN firstPass.calls : firstPass.calls[i].fn = "EnsureIPv6Forwarding"
        THEN {TRUE}
    ELSE BOOLEAN

ConvertToHostConfig ==
    /\ pc = "APItoHostConfig"
    /\ \E ok \in Converts :
        IF ok THEN Goto("EnsureIPv6Forwarding")
              ELSE Return(ConversionError)
    /\ NoReporting
    /\ UNCHANGED <<apiConfig, hostHasUnderlay, l3idx, l2idx, calls, ifName, ifNameErr,
                   controllerVars, statusVars>>

EnsureIPv6Forwarding ==
    /\ pc = "EnsureIPv6Forwarding"
    /\ \E ok \in BOOLEAN :
        /\ calls' = Append(calls, Call("EnsureIPv6Forwarding", <<>>, ok))
        /\ IF ok THEN Goto("SetupUnderlay")
                 ELSE Return(HostError(Wrap("failed to ensure IPv6 forwarding",
                                            <<"host error">>)))
    /\ NoReporting
    /\ UNCHANGED <<apiConfig, hostHasUnderlay, l3idx, l2idx, ifName, ifNameErr,
                   controllerVars, statusVars>>

\* a plausible slip: the return after a failed SetupUnderlay is missing
SetupUnderlay_FailureIgnored ==
    /\ pc = "SetupUnderlay"
    /\ \E hostErr \in {NoError, <<"host error">>, <<UnderlayExistsError>>} :
        /\ calls' = Append(calls, Call("SetupUnderlay", apiConfig.Underlays[1].Name,
                                       ~IsError(hostErr)))
        /\ IF IsError(hostErr)
               THEN Reporting(<<FailureReport(UnderlayKind, apiConfig.Underlays[1].Name,
                                              hostErr)>>)
               ELSE Reporting(<<SuccessReport(UnderlayKind, apiConfig.Underlays[1].Name)>>)
        /\ Goto(AfterUnderlay)
        /\ hostHasUnderlay' = TRUE
        /\ l3idx' = 1
        /\ l2idx' = 1
    /\ UNCHANGED <<apiConfig, ifName, ifNameErr, controllerVars, statusVars>>

\* len(config.Underlays) > 0 holds here: the pass returned above without one
SetupUnderlay ==
    /\ pc = "SetupUnderlay"
    /\ \E hostErr \in {NoError, <<"host error">>, <<UnderlayExistsError>>} :
        /\ calls' = Append(calls, Call("SetupUnderlay", apiConfig.Underlays[1].Name,
                                       ~IsError(hostErr)))
        /\ IF IsError(hostErr)
               THEN /\ Reporting(<<FailureReport(UnderlayKind, apiConfig.Underlays[1].Name,
                                                 hostErr)>>)
                    /\ Return(HostError(Wrap("failed to setup underlay", hostErr)))
                    /\ UNCHANGED <<hostHasUnderlay, l3idx, l2idx>>
               ELSE /\ Reporting(<<SuccessReport(UnderlayKind, apiConfig.Underlays[1].Name)>>)
                    /\ Goto(AfterUnderlay)
                    /\ hostHasUnderlay' = TRUE
                    /\ l3idx' = 1
                    /\ l2idx' = 1
    /\ UNCHANGED <<apiConfig, ifName, ifNameErr, controllerVars, statusVars>>

\* a plausible slip: the failed L3VNI is returned without being reported
SetupL3VNI_NoFailureReport ==
    /\ pc = "SetupL3VNI"
    /\ LET l3vni == apiConfig.L3VNIs[l3idx]
       IN  IF ~findHostVNI(APItoHostConfig(apiConfig).L3VNIs, l3vni.VNI)
               THEN /\ Return(HostError(<<"unexpected error, no host config found for L3VNI">>))
                    /\ NoReporting
                    /\ UNCHANGED <<calls, l3idx>>
               ELSE \E ok \in BOOLEAN :
                    /\ calls' = Append(calls, Call("SetupL3VNI", l3vni.Name, ok))
                    /\ IF ok
                           THEN /\ Reporting(<<SuccessReport(L3VNIKind, l3vni.Name)>>)
                                /\ l3idx' = l3idx + 1
                                /\ Goto(IF l3idx < Len(apiConfig.L3VNIs)
                                            THEN "SetupL3VNI" ELSE AfterL3VNIs)
                           ELSE /\ NoReporting
                                /\ Return(HostError(Wrap("failed to setup L3VNI",
                                                         <<"host error">>)))
                                /\ UNCHANGED l3idx
    /\ UNCHANGED <<apiConfig, hostHasUnderlay, l2idx, ifName, ifNameErr,
                   controllerVars, statusVars>>

\* one turn of the loop over config.L3VNIs
SetupL3VNI ==
    /\ pc = "SetupL3VNI"
    /\ LET l3vni == apiConfig.L3VNIs[l3idx]
       IN  IF ~findHostVNI(APItoHostConfig(apiConfig).L3VNIs, l3vni.VNI)
               THEN /\ Return(HostError(<<"unexpected error, no host config found for L3VNI">>))
                    /\ NoReporting
                    /\ UNCHANGED <<calls, l3idx>>
               ELSE \E ok \in BOOLEAN :
                    /\ calls' = Append(calls, Call("SetupL3VNI", l3vni.Name, ok))
                    /\ IF ok
                           THEN /\ Reporting(<<SuccessReport(L3VNIKind, l3vni.Name)>>)
                                /\ l3idx' = l3idx + 1
                                /\ Goto(IF l3idx < Len(apiConfig.L3VNIs)
                                            THEN "SetupL3VNI" ELSE AfterL3VNIs)
                           ELSE /\ Reporting(<<FailureReport(L3VNIKind, l3vni.Name,
                                                             <<"host error">>)>>)
                                /\ Return(HostError(Wrap("failed to setup L3VNI",
                                                         <<"host error">>)))
                                /\ UNCHANGED l3idx
    /\ UNCHANGED <<apiConfig, hostHasUnderlay, l2idx, ifName, ifNameErr,
                   controllerVars, statusVars>>

\* one turn of the loop over config.L2VNIs
SetupL2VNI ==
    /\ pc = "SetupL2VNI"
    /\ LET l2vni == apiConfig.L2VNIs[l2idx]
       IN  IF ~findHostVNI(APItoHostConfig(apiConfig).L2VNIs, l2vni.VNI)
               THEN /\ Return(HostError(<<"unexpected error, no host config found for L2VNI">>))
                    /\ NoReporting
                    /\ UNCHANGED <<calls, l2idx>>
               ELSE \E ok \in BOOLEAN :
                    /\ calls' = Append(calls, Call("SetupL2VNI", l2vni.Name, ok))
                    /\ IF ok
                           THEN /\ Reporting(<<SuccessReport(L2VNIKind, l2vni.Name)>>)
                                /\ l2idx' = l2idx + 1
                                /\ Goto(IF l2idx < Len(apiConfig.L2VNIs)
                                            THEN "SetupL2VNI" ELSE AfterL2VNIs)
                           ELSE /\ Reporting(<<FailureReport(L2VNIKind, l2vni.Name,
                                                             <<"host error">>)>>)
                                /\ Return(HostError(Wrap("failed to setup L2VNI",
                                                         <<"host error">>)))
                                /\ UNCHANGED l2idx
    /\ UNCHANGED <<apiConfig, hostHasUnderlay, l3idx, ifName, ifNameErr,
                   controllerVars, statusVars>>

SetupPassthrough ==
    /\ pc = "SetupPassthrough"
    /\ IF ~APItoHostConfig(apiConfig).L3Passthrough
           THEN /\ Return(HostError(<<"unexpected error, L3Passthrough not found in host config">>))
                /\ NoReporting
                /\ UNCHANGED calls
           ELSE \E ok \in BOOLEAN :
                /\ calls' = Append(calls, Call("SetupPassthrough",
                                               apiConfig.L3Passthrough[1].Name, ok))
                /\ IF ok
                       THEN /\ Reporting(<<SuccessReport(L3PassthroughKind,
                                                         apiConfig.L3Passthrough[1].Name)>>)
                            /\ Goto("RemoveNonConfiguredVNIs")
                       ELSE /\ Reporting(<<FailureReport(L3PassthroughKind,
                                                         apiConfig.L3Passthrough[1].Name,
                                                         <<"host error">>)>>)
                            /\ Return(HostError(Wrap("failed to setup L3Passthrough",
                                                     <<"host error">>)))
    /\ UNCHANGED <<apiConfig, hostHasUnderlay, l3idx, l2idx, ifName, ifNameErr,
                   controllerVars, statusVars>>

RemoveNonConfiguredVNIs ==
    /\ pc = "RemoveNonConfiguredVNIs"
    /\ \E ok \in BOOLEAN :
        /\ calls' = Append(calls, Call("RemoveNonConfiguredVNIs",
                                       toCheck(APItoHostConfig(apiConfig)), ok))
        /\ IF ~ok
               THEN Return(HostError(Wrap("failed to remove deleted vnis", <<"host error">>)))
           ELSE IF Len(apiConfig.L3Passthrough) = 0
               THEN Goto("RemovePassthrough")
           ELSE Return(NoError)
    /\ NoReporting
    /\ UNCHANGED <<apiConfig, hostHasUnderlay, l3idx, l2idx, ifName, ifNameErr,
                   controllerVars, statusVars>>

RemovePassthrough ==
    /\ pc = "RemovePassthrough"
    /\ \E ok \in BOOLEAN :
        /\ calls' = Append(calls, Call("RemovePassthrough", <<>>, ok))
        /\ IF ok THEN Return(NoError)
                 ELSE Return(HostError(Wrap("failed to remove passthrough", <<"host error">>)))
    /\ NoReporting
    /\ UNCHANGED <<apiConfig, hostHasUnderlay, l3idx, l2idx, ifName, ifNameErr,
                   controllerVars, statusVars>>

\* the state a pass starts from: a fresh StatusManager, any resource set of
\* the cluster, a target namespace with or without an underlay interface
Init ==
    /\ IsPassConfig(apiConfig)
    /\ hostHasUnderlay \in BOOLEAN
    /\ pc = "ValidateUnderlays"
    /\ l3idx = 1
    /\ l2idx = 1
    /\ retErr = NoError
    /\ calls = <<>>
    /\ reports = <<>>
    /\ failedResourceCache = NewStatusManager.failedResourceCache
    /\ triggerChannel = NewStatusManager.triggerChannel
    /\ ifName = <<>>
    /\ ifNameErr = NoError
    /\ ControllerIdle
    /\ StatusIdle
    /\ OthersIdle

Next ==
    \/ ReconcileValidateUnderlays
    \/ ReconcileValidateL3VNIs
    \/ ReconcileValidateL2VNIs
    \/ ReconcileValidateHostSessions
    \/ ConfigureFRR
    \/ HasUnderlayInterface
    \/ ConvertToHostConfig
    \/ EnsureIPv6Forwarding
    \/ SetupUnderlay
    \/ SetupL3VNI
    \/ SetupL2VNI
    \/ SetupPassthrough
    \/ RemoveNonConfiguredVNIs
    \/ RemovePassthrough

Spec ==
    Init /\ [][Next]_vars

(* The host-network layer, as the calls of configureInterfaces leave the    *)
(* target namespace.  The layer itself is outside this repository's part    *)
(* modelled here; it is taken as its interface describes it: a Setup call   *)
(* brings the named object to its desired state, RemoveNonConfiguredVNIs    *)
(* removes the VNIs that are not in the list it is given, RemovePassthrough *)
(* removes the passthrough, a failed call leaves the namespace as it was.   *)

\* a namespace before the first pass: empty, or with what an earlier
\* resource set left in it
EarlierHosts ==
    {[underlay |-> <<>>, l3vnis |-> {}, l2vnis |-> {}, passthrough |-> FALSE,
      ipv6Forwarding |-> FALSE],
     [underlay |-> <<>>, l3vnis |-> {1, 4}, l2vnis |-> {5}, passthrough |-> TRUE,
      ipv6Forwarding |-> TRUE]}

\* the VNI of the declared L3VNI / L2VNI of the name
VNIOf(vnis, name) ==
    (CHOOSE i \in 1..Len(vnis) : vnis[i].Name = name)

HostAfterCall(host, call) ==
    IF ~call.ok THEN host
    ELSE IF call.fn = "EnsureIPv6Forwarding" THEN [host EXCEPT !.ipv6Forwarding = TRUE]
    ELSE IF call.fn = "SetupUnderlay" THEN [host EXCEPT !.underlay = call.arg]
    ELSE IF call.fn = "SetupL3VNI"
        THEN [host EXCEPT !.l3vnis = @ \cup {apiConfig.L3VNIs[VNIOf(apiConfig.L3VNIs, call.arg)].VNI}]
    ELSE IF call.fn = "SetupL2VNI"
        THEN [host EXCEPT !.l2vnis = @ \cup {apiConfig.L2VNIs[VNIOf(apiConfig.L2VNIs, call.arg)].VNI}]
    ELSE IF call.fn = "SetupPassthrough" THEN [host EXCEPT !.passthrough = TRUE]
    ELSE IF call.fn = "RemoveNonConfiguredVNIs"
        THEN LET desired == {call.arg[i] : i \in 1..Len(call.arg)}
             IN  [host EXCEPT !.l3vnis = @ \cap desired, !.l2vnis = @ \cap desired]
    ELSE IF call.fn = "RemovePassthrough" THEN [host EXCEPT !.passthrough = FALSE]
    ELSE host

\* the namespace after the calls, made in order
RECURSIVE HostAfter(_, _)
HostAfter(host, made) ==
    IF made = <<>> THEN host
    ELSE HostAfter(HostAfterCall(host, Head(made)), Tail(made))

----------------------------------------------------------------------------

(* Reconcile called a second time, on the resource set and the host of the  *)
(* first call: the controller calls it for every event and every requeue.   *)
(* What the first call did is kept in firstPass.                            *)

ReconcileAgain ==
    /\ pc = "done"
    /\ ~firstPass.done
    /\ firstPass' = [done |-> TRUE, calls |-> calls, err |-> retErr,
                     hostHasUnderlay |-> hostHasUnderlay]
    /\ pc' = "ValidateUnderlays"
    /\ l3idx' = 1
    /\ l2idx' = 1
    /\ retErr' = NoError
    /\ calls' = <<>>
    /\ reports' = <<>>
    /\ UNCHANGED <<apiConfig, hostHasUnderlay, failedResourceCache, triggerChannel,
                   ifName, ifNameErr, controllerVars, reconcilerVars, besideVars,
                   routerPod, passes>>

NextTwice ==
    \/ Next
    \/ ReconcileAgain

SpecTwice ==
    Init /\ [][NextTwice]_vars

----------------------------------------------------------------------------
(* underlay_vni_controller.go and router_pod.go: one pass of                *)
(* PERouterReconciler.Reconcile.  The pass lists the resources, asks the    *)
(* router provider for the router, stops at the readiness gate, drops the   *)
(* cache entries of resources that are gone, runs the pipeline above and    *)
(* handles what it returned.                                                *)

\* 5 * time.Second
RequeueSeconds ==
    5

RemovedReport(kind, resourceName) ==
    [op |-> "Removed", kind |-> kind, name |-> resourceName, err |-> NoError]

\* StatusManager.GetStatusSummary: the entries as FailedResourceInfo
GetStatusSummary(cache) ==
    {[Kind |-> e.ResourceKind, Name |-> e.ResourceName, ErrorMessage |-> e.ErrorMessage] :
        e \in cache}

\* a plausible slip: ContainersReady is not looked at
PodIsReady_ReadyOnly(ready, containers) ==
    ready

\* k8s.PodIsReady
PodIsReady(ready, containers) ==
    ready /\ containers

\* return ctrl.Result{}, err
ControllerReturn(requeueAfter, err) ==
    /\ pc' = "returned"
    /\ result' = [RequeueAfter |-> requeueAfter, err |-> err]

ControllerGoto(next) ==
    /\ pc' = next
    /\ result' = result

\* a plausible slip: the failed step is recorded against every Underlay
ControllerStep_ReportsFailure(at, err, next) ==
    /\ pc = at
    /\ \E ok \in BOOLEAN :
        IF ok THEN /\ ControllerGoto(next)
                   /\ NoReporting
              ELSE /\ ControllerReturn(0, err)
                   /\ Reporting([i \in 1..Len(apiConfig.Underlays) |->
                            FailureReport(UnderlayKind, apiConfig.Underlays[i].Name, err)])
    /\ UNCHANGED <<apiConfig, hostHasUnderlay, l3idx, l2idx, retErr, calls, ifName, ifNameErr,
                   podReady, containersReady, statusVars>>

\* an API or runtime call of the pass before the gate: it fails with err or
\* the pass goes on
ControllerStep(at, err, next) ==
    /\ pc = at
    /\ \E ok \in BOOLEAN :
        IF ok THEN ControllerGoto(next) ELSE ControllerReturn(0, err)
    /\ NoReporting
    /\ UNCHANGED <<apiConfig, hostHasUnderlay, l3idx, l2idx, retErr, calls, ifName, ifNameErr,
                   podReady, containersReady, statusVars>>

\* the four r.List calls; apiConfig holds what they return
ListResources ==
    ControllerStep("List", <<"list failed">>, "NodeIndex")

GetNodeIndex ==
    ControllerStep("NodeIndex", <<"failed to get node">>, "NewRouter")

\* a plausible slip: a list without a pod is not taken as an error
NewRouter_IgnoresMissingPod ==
    ControllerStep("NewRouter",
                   Wrap("failed to get router pod instance",
                        <<"failed to fetch router pod for node">>),
                   "TargetNS")

\* RouterPodProvider.New: routerPodForNode lists the router pods of the node;
\* the list fails, or holds no pod, or holds the pod
NewRouter ==
    /\ pc = "NewRouter"
    /\ \E ok \in IF routerPod = "Gone" THEN {FALSE} ELSE BOOLEAN :
        IF ok THEN ControllerGoto("TargetNS")
              ELSE ControllerReturn(0, Wrap("failed to get router pod instance",
                                            <<"failed to fetch router pod for node">>))
    /\ NoReporting
    /\ UNCHANGED <<apiConfig, hostHasUnderlay, l3idx, l2idx, retErr, calls, ifName, ifNameErr,
                   podReady, containersReady, statusVars>>

TargetNS ==
    ControllerStep("TargetNS",
                   Wrap("failed to retrieve target namespace",
                        <<"failed to retrieve namespace for pod">>),
                   "CanReconcile")

\* RouterPod.CanReconcile and the gate of the pass
CanReconcile ==
    /\ pc = "CanReconcile"
    /\ IF PodIsReady(podReady, containersReady)
           THEN ControllerGoto("cleanup")
           ELSE ControllerReturn(RequeueSeconds, NoError)
    /\ NoReporting
    /\ UNCHANGED <<apiConfig, hostHasUnderlay, l3idx, l2idx, retErr, calls, ifName, ifNameErr,
                   podReady, containersReady, statusVars>>

\* the resources the lists returned, as <<kind, name>>
CurrentResources ==
    {<<UnderlayKind, apiConfig.Underlays[i].Name>> : i \in 1..Len(apiConfig.Underlays)}
        \cup {<<L3VNIKind, apiConfig.L3VNIs[i].Name>> : i \in 1..Len(apiConfig.L3VNIs)}
        \cup {<<L2VNIKind, apiConfig.L2VNIs[i].Name>> : i \in 1..Len(apiConfig.L2VNIs)}
        \cup {<<L3PassthroughKind, apiConfig.L3Passthrough[i].Name>> :
                i \in 1..Len(apiConfig.L3Passthrough)}

\* the orders a range over a Go map of the elements of S can take
RangeOrders(S) ==
    {f \in [1..Cardinality(S) -> S] : \A i, j \in 1..Cardinality(S) : f[i] = f[j] => i = j}

\* a plausible slip: the switch has no case for L3Passthrough, whose entries
\* are taken as existing
CleanupRemovedFailedResources_NoPassthroughCase ==
    /\ pc = "cleanup"
    /\ LET gone == {f \in GetStatusSummary(failedResourceCache) :
                        /\ <<f.Kind, f.Name>> \notin CurrentResources
                        /\ f.Kind # L3PassthroughKind}
       IN  \E order \in RangeOrders(gone) :
               Reporting([i \in 1..Len(order) |-> RemovedReport(order[i].Kind, order[i].Name)])
    /\ ControllerGoto("ValidateUnderlays")
    /\ UNCHANGED <<apiConfig, hostHasUnderlay, l3idx, l2idx, retErr, calls, ifName, ifNameErr,
                   podReady, containersReady, statusVars>>

\* cleanupRemovedFailedResources
CleanupRemovedFailedResources ==
    /\ pc = "cleanup"
    /\ LET gone == {f \in GetStatusSummary(failedResourceCache) :
                        <<f.Kind, f.Name>> \notin CurrentResources}
       IN  \E order \in RangeOrders(gone) :
               Reporting([i \in 1..Len(order) |-> RemovedReport(order[i].Kind, order[i].Name)])
    /\ ControllerGoto("ValidateUnderlays")
    /\ UNCHANGED <<apiConfig, hostHasUnderlay, l3idx, l2idx, retErr, calls, ifName, ifNameErr,
                   podReady, containersReady, statusVars>>

\* report*ConfigurationSuccess, in the order the pass calls them
SuccessReports ==
    [i \in 1..Len(apiConfig.Underlays) |->
            SuccessReport(UnderlayKind, apiConfig.Underlays[i].Name)]
        \o [i \in 1..Len(apiConfig.L2VNIs) |-> SuccessReport(L2VNIKind, apiConfig.L2VNIs[i].Name)]
        \o [i \in 1..Len(apiConfig.L3VNIs) |-> SuccessReport(L3VNIKind, apiConfig.L3VNIs[i].Name)]
        \o [i \in 1..Len(apiConfig.L3Passthrough) |->
                SuccessReport(L3PassthroughKind, apiConfig.L3Passthrough[i].Name)]

\* a plausible slip: the router is recovered on every error
HandleResult_RecoversOnAnyError ==
    /\ pc = "done"
    /\ IF IsError(retErr)
           THEN /\ \E ok \in BOOLEAN :
                    /\ calls' = Append(calls, Call("HandleNonRecoverableError", <<>>, ok))
                    /\ routerPod' = IF ok THEN "Terminating" ELSE routerPod
                    /\ IF ok THEN ControllerReturn(0, retErr)
                             ELSE ControllerReturn(0, <<"failed to delete router pod">>)
                /\ NoReporting
           ELSE /\ Reporting(SuccessReports)
                /\ ControllerReturn(0, NoError)
                /\ UNCHANGED <<calls, routerPod>>
    /\ UNCHANGED <<apiConfig, hostHasUnderlay, l3idx, l2idx, retErr, ifName, ifNameErr,
                   podReady, containersReady, reconcilerVars, besideVars, firstPass, passes>>

\* what the pass does with the error Reconcile returned
HandleResult ==
    /\ pc = "done"
    /\ IF nonRecoverableHostError(retErr)
           THEN /\ \E ok \in BOOLEAN :
                    /\ calls' = Append(calls, Call("HandleNonRecoverableError", <<>>, ok))
                    /\ routerPod' = IF ok THEN "Terminating" ELSE routerPod
                    /\ IF ok THEN ControllerReturn(0, retErr)
                             ELSE ControllerReturn(0, <<"failed to delete router pod">>)
                /\ NoReporting
           ELSE IF IsError(retErr)
           THEN /\ ControllerReturn(0, retErr)
                /\ NoReporting
                /\ UNCHANGED <<calls, routerPod>>
           ELSE /\ Reporting(SuccessReports)
                /\ ControllerReturn(0, NoError)
                /\ UNCHANGED <<calls, routerPod>>
    /\ UNCHANGED <<apiConfig, hostHasUnderlay, l3idx, l2idx, retErr, ifName, ifNameErr,
                   podReady, containersReady, reconcilerVars, besideVars, firstPass, passes>>

\* a failure a pass before this one left in the cache: of the first Underlay,
\* or of an L3VNI that has been deleted since
EarlierFailures ==
    {{},
     {[ResourceKind |-> UnderlayKind, ResourceName |-> UnderlayName(1),
       ErrorMessage |-> errorMessage(<<"host error">>)]},
     {[ResourceKind |-> L3VNIKind, ResourceName |-> L3Name(MaxPassVNIs + 1),
       ErrorMessage |-> errorMessage(<<"host error">>)]}}

\* the resource sets a controller pass is run on: no, a valid, an invalid and
\* two Underlays; no L3VNI, one, two, and two of one VRF; no or one L2VNI;
\* no, a valid and an invalid L3Passthrough
ControllerL3VNIs ==
    {<<>>,
     <<PassL3VNI(1, <<<<Red, 1>>, TRUE>>)>>,
     <<PassL3VNI(1, <<<<Red, 1>>, TRUE>>), PassL3VNI(2, <<<<Blue, 2>>, FALSE>>)>>,
     <<PassL3VNI(1, <<<<Red, 1>>, FALSE>>), PassL3VNI(2, <<<<Red, 2>>, FALSE>>)>>}

ControllerL2VNIs ==
    {<<>>, <<PassL2VNI(1, <<3, NoHostMaster>>)>>}

IsControllerConfig(config) ==
    \E u \in PassUnderlays, l3 \in ControllerL3VNIs, l2 \in ControllerL2VNIs,
       pt \in PassPassthroughs :
        config = ApiConfig(u, l3, l2, pt)

\* the state a controller pass starts from
InitController ==
    /\ IsControllerConfig(apiConfig)
    /\ hostHasUnderlay \in BOOLEAN
    /\ pc = "List"
    /\ l3idx = 1
    /\ l2idx = 1
    /\ retErr = NoError
    /\ calls = <<>>
    /\ reports = <<>>
    /\ failedResourceCache \in EarlierFailures
    /\ triggerChannel = NewStatusManager.triggerChannel
    /\ ifName = <<>>
    /\ ifNameErr = NoError
    /\ podReady \in BOOLEAN
    /\ containersReady \in BOOLEAN
    /\ result = NoResult
    /\ StatusIdle
    /\ OthersIdle

NextController ==
    \/ ListResources
    \/ GetNodeIndex
    \/ NewRouter
    \/ TargetNS
    \/ CanReconcile
    \/ CleanupRemovedFailedResources
    \/ ReconcileValidateUnderlays
    \/ ReconcileValidateL3VNIs
    \/ ReconcileValidateL2VNIs
    \/ ReconcileValidateHostSessions
    \/ ConfigureFRR
    \/ HasUnderlayInterface
    \/ ConvertToHostConfig
    \/ EnsureIPv6Forwarding
    \/ SetupUnderlay
    \/ SetupL3VNI
    \/ SetupL2VNI
    \/ SetupPassthrough
    \/ RemoveNonConfiguredVNIs
    \/ RemovePassthrough
    \/ HandleResult

SpecController ==
    InitController /\ [][NextController]_vars

----------------------------------------------------------------------------
(* The passes of the configuration controller one after the other, beside   *)
(* the router pod.  The controller calls Reconcile again after an error,    *)
(* after the requeue time and on the events of the router pod               *)
(* (SetupWithManager).  The pod belongs to Kubernetes: a deleted pod is     *)
(* listed while it terminates, with the conditions it had until the kubelet *)
(* stops its containers, then it is gone, then its DaemonSet creates a new  *)
(* one, in a new network namespace, which becomes ready.  A pass works on   *)
(* the pod its list returned, so the pod changes between the passes here.   *)

\* passes of a run of the model
MaxPasses ==
    3

\* the kubelet stops the containers of the terminating pod
PodStops ==
    /\ pc = "List"
    /\ routerPod = "Terminating"
    /\ podReady
    /\ podReady' = FALSE
    /\ containersReady' = FALSE
    /\ UNCHANGED <<apiConfig, hostHasUnderlay, pc, l3idx, l2idx, retErr, calls, reports,
                   failedResourceCache, triggerChannel, ifName, ifNameErr, result,
                   statusVars>>

\* the terminated pod is removed from the store
PodRemoved ==
    /\ pc = "List"
    /\ routerPod = "Terminating"
    /\ routerPod' = "Gone"
    /\ podReady' = FALSE
    /\ containersReady' = FALSE
    /\ UNCHANGED <<apiConfig, hostHasUnderlay, pc, l3idx, l2idx, retErr, calls, reports,
                   failedResourceCache, triggerChannel, ifName, ifNameErr, result,
                   reconcilerVars, besideVars, firstPass, passes>>

\* the DaemonSet creates the pod again: not ready, its namespace empty
PodCreated ==
    /\ pc = "List"
    /\ routerPod = "Gone"
    /\ routerPod' = "Recreated"
    /\ hostHasUnderlay' = FALSE
    /\ UNCHANGED <<apiConfig, pc, l3idx, l2idx, retErr, calls, reports,
                   failedResourceCache, triggerChannel, ifName, ifNameErr, controllerVars,
                   reconcilerVars, besideVars, firstPass, passes>>

\* the containers of the pod are up
PodBecomesReady ==
    /\ pc = "List"
    /\ routerPod \in {"Present", "Recreated"}
    /\ ~PodIsReady(podReady, containersReady)
    /\ podReady' = TRUE
    /\ containersReady' = TRUE
    /\ UNCHANGED <<apiConfig, hostHasUnderlay, pc, l3idx, l2idx, retErr, calls, reports,
                   failedResourceCache, triggerChannel, ifName, ifNameErr, result,
                   statusVars>>

\* the controller calls Reconcile again
ReconcileCalledAgain ==
    /\ pc = "returned"
    /\ passes < MaxPasses
    /\ passes' = passes + 1
    /\ pc' = "List"
    /\ result' = NoResult
    /\ retErr' = NoError
    /\ calls' = <<>>
    /\ reports' = <<>>
    /\ l3idx' = 1
    /\ l2idx' = 1
    /\ UNCHANGED <<apiConfig, hostHasUnderlay, failedResourceCache, triggerChannel, ifName,
                   ifNameErr, podReady, containersReady, reconcilerVars, besideVars,
                   firstPass, routerPod>>

\* the node at the first pass: a resource of each kind declared, the
\* Underlay alone, or nothing, over a namespace with or without an underlay
\* interface
InitRecovery ==
    /\ apiConfig \in {ApiConfig(<<GoodUnderlay(1)>>, <<PassL3VNI(1, <<<<Red, 1>>, TRUE>>)>>,
                                <<PassL2VNI(1, <<3, NoHostMaster>>)>>, <<GoodPassthrough>>),
                      ApiConfig(<<GoodUnderlay(1)>>, <<>>, <<>>, <<>>),
                      ApiConfig(<<>>, <<>>, <<>>, <<>>)}
    /\ hostHasUnderlay \in BOOLEAN
    /\ pc = "List"
    /\ l3idx = 1
    /\ l2idx = 1
    /\ retErr = NoError
    /\ calls = <<>>
    /\ reports = <<>>
    /\ failedResourceCache = NewStatusManager.failedResourceCache
    /\ triggerChannel = NewStatusManager.triggerChannel
    /\ ifName = <<>>
    /\ ifNameErr = NoError
    /\ podReady \in BOOLEAN
    /\ containersReady = podReady
    /\ result = NoResult
    /\ StatusIdle
    /\ OthersIdle

NextRecovery ==
    \/ NextController
    \/ PodStops
    \/ PodRemoved
    \/ PodCreated
    \/ PodBecomesReady
    \/ ReconcileCalledAgain

\* a pass that was called returns: each step of Reconcile ends
SpecRecovery ==
    InitRecovery /\ [][NextRecovery]_vars /\ WF_vars(NextController)

----------------------------------------------------------------------------

(* The StatusManager called on its own: any sequence of StatusReporter      *)
(* calls on a fresh manager, each call taken as a whole.                    *)

\* longest sequence of StatusReporter calls tried
MaxReports ==
    3

\* the resources the calls are about: two kinds, and two names of one kind
ReportKeys ==
    {<<UnderlayKind, UnderlayName(1)>>, <<L3VNIKind, L3Name(1)>>, <<L3VNIKind, L3Name(2)>>}

\* the errors reported
ReportErrors ==
    {<<"host error">>, <<"failed to validate", "invalid vni">>}

CallReportResourceSuccess ==
    /\ pc = "report"
    /\ Len(reports) < MaxReports
    /\ \E key \in ReportKeys :
        Reporting(<<SuccessReport(key[1], key[2])>>)
    /\ UNCHANGED <<apiConfig, hostHasUnderlay, pc, l3idx, l2idx, retErr, calls, ifName,
                   ifNameErr, controllerVars, statusVars>>

CallReportResourceFailure ==
    /\ pc = "report"
    /\ Len(reports) < MaxReports
    /\ \E key \in ReportKeys, err \in ReportErrors :
        Reporting(<<FailureReport(key[1], key[2], err)>>)
    /\ UNCHANGED <<apiConfig, hostHasUnderlay, pc, l3idx, l2idx, retErr, calls, ifName,
                   ifNameErr, controllerVars, statusVars>>

CallReportResourceRemoved ==
    /\ pc = "report"
    /\ Len(reports) < MaxReports
    /\ \E key \in ReportKeys :
        Reporting(<<RemovedReport(key[1], key[2])>>)
    /\ UNCHANGED <<apiConfig, hostHasUnderlay, pc, l3idx, l2idx, retErr, calls, ifName,
                   ifNameErr, controllerVars, statusVars>>

InitReports ==
    /\ apiConfig = ApiConfig(<<>>, <<>>, <<>>, <<>>)
    /\ hostHasUnderlay = FALSE
    /\ pc = "report"
    /\ l3idx = 1
    /\ l2idx = 1
    /\ retErr = NoError
    /\ calls = <<>>
    /\ reports = <<>>
    /\ failedResourceCache = NewStatusManager.failedResourceCache
    /\ triggerChannel = NewStatusManager.triggerChannel
    /\ ifName = <<>>
    /\ ifNameErr = NoError
    /\ ControllerIdle
    /\ StatusIdle
    /\ OthersIdle

NextReports ==
    \/ CallReportResourceSuccess
    \/ CallReportResourceFailure
    \/ CallReportResourceRemoved

SpecReports ==
    InitReports /\ [][NextReports]_vars

----------------------------------------------------------------------------
(* The StatusManager and the status reconciler side by side: the goroutine  *)
(* of the configuration controller calls Report*, a statement at a time,    *)
(* while the status controller receives the triggers and runs               *)
(* RouterNodeConfigurationStatusReconciler.Reconcile, an API call at a      *)
(* time.  The channel source and the workqueue of the status controller     *)
(* belong to controller-runtime: a received trigger marks the one request   *)
(* of the controller dirty, a dirty request that is not being processed is  *)
(* handed to the one worker, a request that was marked while it was being   *)
(* processed is processed again, and so is one whose pass returned an       *)
(* error.                                                                   *)

\* API server calls of the status reconciler that fail in a run of the model
MaxApiErrors ==
    1

\* the resources reported on
StatusKeys ==
    {<<L3VNIKind, L3Name(1)>>}

StatusErrors ==
    {<<"host error">>, <<"failed to validate", "invalid vni">>}

\* what the configuration controller leaves alone while Report* runs, and
\* the components beside the status reconciler
statusFrame ==
    <<apiConfig, hostHasUnderlay, pc, l3idx, l2idx, retErr, calls, reports, ifName, ifNameErr,
      controllerVars, besideVars, firstPass, routerPod, passes>>

\* a plausible slip: the name is left out
FailedResource_KindOnly(failed) ==
    [Kind |-> failed.Kind, Name |-> <<>>, Message |-> failed.ErrorMessage]

\* v1alpha1.FailedResource of a cache entry
FailedResource(failed) ==
    [Kind |-> failed.Kind, Name |-> failed.Name, Message |-> failed.ErrorMessage]

\* fmt.Sprintf("%d resource(s) failed", failedCount)
buildFailureMessageFromCount(failedCount) ==
    IF failedCount > 0
        THEN [text |-> "%d resource(s) failed", count |-> failedCount]
        ELSE Text("Configuration failed")

\* a plausible slip: Degraded follows Ready
buildConditions_DegradedFollowsReady(failedCount, now) ==
    LET status == IF failedCount > 0 THEN "False" ELSE "True"
    IN  <<[Type |-> "Ready", Status |-> status, Reason |-> "ConfigurationFailed",
           Message |-> Text("Some OpenPERouter configurations failed"),
           LastTransitionTime |-> now],
          [Type |-> "Degraded", Status |-> status, Reason |-> "ConfigurationFailed",
           Message |-> buildFailureMessageFromCount(failedCount),
           LastTransitionTime |-> now]>>

\* buildConditions: the Ready and the Degraded condition, in this order
buildConditions(failedCount, now) ==
    IF failedCount > 0
        THEN <<[Type |-> "Ready", Status |-> "False", Reason |-> "ConfigurationFailed",
                Message |-> Text("Some OpenPERouter configurations failed"),
                LastTransitionTime |-> now],
               [Type |-> "Degraded", Status |-> "True", Reason |-> "ConfigurationFailed",
                Message |-> buildFailureMessageFromCount(failedCount),
                LastTransitionTime |-> now]>>
        ELSE <<[Type |-> "Ready", Status |-> "True", Reason |-> "ConfigurationSuccessful",
                Message |-> Text("All OpenPERouter configurations are successful"),
                LastTransitionTime |-> now],
               [Type |-> "Degraded", Status |-> "False", Reason |-> "ConfigurationSuccessful",
                Message |-> Text("All configurations are healthy"),
                LastTransitionTime |-> now]>>

\* buildStatus on the summary GetStatusSummary returned, at the time now:
\* both lists are made, so neither is nil
buildStatus(statusSummary, now) ==
    LET failedResources == [i \in 1..Len(statusSummary) |-> FailedResource(statusSummary[i])]
    IN  [LastUpdateTime |-> now,
         FailedResources |-> MakeSlice(failedResources),
         Conditions |-> MakeSlice(buildConditions(Len(failedResources), now))]

\* json:",omitempty" on a list: an empty list is left out of the document and
\* is nil when the document is read back
omitempty(slice) ==
    IF Len(slice.elems) = 0 THEN NilSlice ELSE slice

\* the status as the API server returns it after it was written
Stored(status) ==
    [status EXCEPT !.FailedResources = omitempty(status.FailedResources),
                   !.Conditions = omitempty(status.Conditions)]

\* time.Now() of a pass that fetched a status written at the time t: later
\* than t; the model keeps two instants apart
Now(t) ==
    IF t = 1 THEN 2 ELSE 1

\* a plausible slip: no owner reference
CreatedCRD_NoOwner(node) ==
    [exists |-> TRUE, Name |-> MyNode, Namespace |-> MyNamespace,
     OwnerReferences |-> <<>>, Status |-> NoStatus]

\* the object createRouterNodeStatus creates for the Node it read: no status yet
CreatedCRD(node) ==
    [exists |-> TRUE, Name |-> MyNode, Namespace |-> MyNamespace,
     OwnerReferences |-> <<[APIVersion |-> "v1", Kind |-> "Node",
                            Name |-> node.Name, UID |-> node.UID]>>,
     Status |-> NoStatus]

\* the two normalisations of statusEqual: LastUpdateTime = nil and every
\* LastTransitionTime the zero time
normalized(s) ==
    [LastUpdateTime |-> NoTime,
     FailedResources |-> s.FailedResources,
     Conditions |-> [isNil |-> s.Conditions.isNil,
                     elems |-> [i \in 1..Len(s.Conditions.elems) |->
                                   [s.Conditions.elems[i] EXCEPT !.LastTransitionTime = NoTime]]]]

\* statusEqual: reflect.DeepEqual of the normalised copies; DeepEqual compares
\* lists element by element, in order, and a nil list differs from an empty one
statusEqual(a, b) ==
    normalized(a) = normalized(b)

(* the goroutine that reports *)

\* a Report* call is entered
ReportCall ==
    /\ pc = "status"
    /\ reportPc = "idle"
    /\ \E key \in StatusKeys :
        \/ reportOp' = SuccessReport(key[1], key[2])
        \/ \E err \in StatusErrors : reportOp' = FailureReport(key[1], key[2], err)
        \/ reportOp' = RemovedReport(key[1], key[2])
    /\ reportPc' = "Lock"
    /\ UNCHANGED <<statusFrame, failedResourceCache, triggerChannel, mutex, wqDirty,
                   wqProcessing, statusPc, newStatus, crd, unobserved, apiErrors, dropped,
                   objectVars>>

\* a plausible slip: the report takes the read lock, which a reader shares
ReportLock_ReadLock ==
    /\ reportPc = "Lock"
    /\ mutex \in {"free", "reader"}
    /\ mutex' = "writer"
    /\ reportPc' = "Locked"
    /\ UNCHANGED <<statusFrame, failedResourceCache, triggerChannel, reportOp, wqDirty,
                   wqProcessing, statusPc, newStatus, crd, unobserved, apiErrors, dropped,
                   objectVars>>

\* er.failedResourceCacheMutex.Lock()
ReportLock ==
    /\ reportPc = "Lock"
    /\ mutex = "free"
    /\ mutex' = "writer"
    /\ reportPc' = "Locked"
    /\ UNCHANGED <<statusFrame, failedResourceCache, triggerChannel, reportOp, wqDirty,
                   wqProcessing, statusPc, newStatus, crd, unobserved, apiErrors, dropped,
                   objectVars>>

\* the cache is updated and the lock released; ReportResourceRemoved returns
\* here when the key had no entry
ReportUnlock ==
    /\ reportPc = "Locked"
    /\ LET existed == <<reportOp.kind, reportOp.name>> \in CacheKeys(failedResourceCache)
       IN  /\ failedResourceCache' = ApplyReport(sm, reportOp).failedResourceCache
           /\ unobserved' = (unobserved \/ failedResourceCache' # failedResourceCache)
           /\ reportPc' = IF reportOp.op = "Removed" /\ ~existed THEN "idle" ELSE "Send"
    /\ mutex' = "free"
    /\ reportOp' = NoReportOp
    /\ UNCHANGED <<statusFrame, triggerChannel, wqDirty, wqProcessing, statusPc, newStatus,
                   crd, apiErrors, dropped, objectVars>>

\* a plausible slip: a plain send on the channel, which waits for room
ReportSend_Blocking ==
    /\ reportPc = "Send"
    /\ triggerChannel < TriggerChannelCap
    /\ triggerChannel' = triggerChannel + 1
    /\ dropped' = FALSE
    /\ reportPc' = "idle"
    /\ UNCHANGED <<statusFrame, failedResourceCache, mutex, reportOp, wqDirty, wqProcessing,
                   statusPc, newStatus, crd, unobserved, apiErrors, objectVars>>

\* er.sendTriggerEvent() and the return of the call
ReportSend ==
    /\ reportPc = "Send"
    /\ triggerChannel' = sendTriggerEvent(triggerChannel)
    /\ dropped' = (triggerChannel' = triggerChannel)
    /\ reportPc' = "idle"
    /\ UNCHANGED <<statusFrame, failedResourceCache, mutex, reportOp, wqDirty, wqProcessing,
                   statusPc, newStatus, crd, unobserved, apiErrors, objectVars>>

(* the status controller *)

\* what a step of the status controller leaves alone
reporterFrame ==
    <<failedResourceCache, triggerChannel, mutex, reportPc, reportOp, unobserved, dropped>>

\* source.Channel: a trigger is received and the request enqueued
ChannelReceive ==
    /\ triggerChannel > 0
    /\ triggerChannel' = triggerChannel - 1
    /\ dropped' = FALSE
    /\ wqDirty' = TRUE
    /\ UNCHANGED <<statusFrame, failedResourceCache, mutex, reportPc, reportOp, wqProcessing,
                   statusPc, newStatus, crd, unobserved, apiErrors, objectVars>>

\* return ctrl.Result{}, err: the pass ends and the request is enqueued again
StatusRequeue ==
    /\ statusPc' = "idle"
    /\ wqProcessing' = FALSE
    /\ wqDirty' = TRUE
    /\ fetched' = NoCRD
    /\ newStatus' = NoStatus
    /\ UNCHANGED <<crd, deletes>>

\* return ctrl.Result{}, nil
StatusReturn ==
    /\ statusPc' = "idle"
    /\ wqProcessing' = FALSE
    /\ fetched' = NoCRD
    /\ newStatus' = NoStatus

\* an API server call fails for a reason of its own
StatusReturnError ==
    /\ apiErrors < MaxApiErrors
    /\ apiErrors' = apiErrors + 1
    /\ StatusRequeue

\* the worker takes the request and Reconcile is entered
StatusStart ==
    /\ statusPc = "idle"
    /\ wqDirty
    /\ ~wqProcessing
    /\ wqDirty' = FALSE
    /\ wqProcessing' = TRUE
    /\ statusPc' = "Get"
    /\ UNCHANGED <<statusFrame, reporterFrame, newStatus, crd, apiErrors, objectVars>>

\* a plausible slip: a pass that does not find the object returns
StatusGet_IgnoresNotFound ==
    /\ statusPc = "Get"
    /\ \/ StatusReturnError
       \/ /\ crd.exists
          /\ fetched' = crd
          /\ statusPc' = "RLock"
          /\ UNCHANGED <<wqDirty, wqProcessing, newStatus, crd, apiErrors, deletes>>
       \/ /\ ~crd.exists
          /\ StatusReturn
          /\ UNCHANGED <<wqDirty, crd, apiErrors, deletes>>
    /\ UNCHANGED <<statusFrame, reporterFrame>>

\* r.Get of the node's RouterNodeConfigurationStatus
StatusGet ==
    /\ statusPc = "Get"
    /\ \/ StatusReturnError
       \/ /\ fetched' = crd
          /\ statusPc' = IF crd.exists THEN "RLock" ELSE "GetNode"
          /\ UNCHANGED <<wqDirty, wqProcessing, newStatus, crd, apiErrors, deletes>>
    /\ UNCHANGED <<statusFrame, reporterFrame>>

\* createRouterNodeStatus: r.Get of the Node; nothing is created when it fails
StatusGetNode ==
    /\ statusPc = "GetNode"
    /\ \/ StatusReturnError
       \/ /\ statusPc' = "Create"
          /\ UNCHANGED <<wqDirty, wqProcessing, newStatus, crd, apiErrors, objectVars>>
    /\ UNCHANGED <<statusFrame, reporterFrame>>

\* createRouterNodeStatus: r.Create; the watch on the kind enqueues the request
StatusCreate ==
    /\ statusPc = "Create"
    /\ \/ StatusReturnError
       \/ /\ crd' = CreatedCRD(TheNode)
          /\ wqDirty' = TRUE
          /\ statusPc' = "ReGet"
          /\ UNCHANGED <<wqProcessing, newStatus, apiErrors, objectVars>>
    /\ UNCHANGED <<statusFrame, reporterFrame>>

\* the second r.Get, after the create: it returns the object, or not-found
\* when the object was deleted since
StatusReGet ==
    /\ statusPc = "ReGet"
    /\ \/ StatusReturnError
       \/ /\ crd.exists
          /\ fetched' = crd
          /\ statusPc' = "RLock"
          /\ UNCHANGED <<wqDirty, wqProcessing, newStatus, crd, apiErrors, deletes>>
       \/ /\ ~crd.exists
          /\ StatusRequeue
          /\ UNCHANGED apiErrors
    /\ UNCHANGED <<statusFrame, reporterFrame>>

\* buildStatus enters GetStatusSummary: er.failedResourceCacheMutex.RLock()
StatusRLock ==
    /\ statusPc = "RLock"
    /\ mutex = "free"
    /\ mutex' = "reader"
    /\ statusPc' = "Read"
    /\ UNCHANGED <<statusFrame, failedResourceCache, triggerChannel, reportPc, reportOp,
                   wqDirty, wqProcessing, newStatus, crd, unobserved, apiErrors, dropped,
                   objectVars>>

\* GetStatusSummary copies the cache in the order the range over the map
\* takes and releases the lock; buildStatus returns the new status
StatusRUnlock ==
    /\ statusPc = "Read"
    /\ \E statusSummary \in RangeOrders(GetStatusSummary(failedResourceCache)) :
        newStatus' = buildStatus(statusSummary, Now(fetched.Status.LastUpdateTime))
    /\ unobserved' = FALSE
    /\ mutex' = "free"
    /\ statusPc' = "Patch"
    /\ UNCHANGED <<statusFrame, failedResourceCache, triggerChannel, reportPc, reportOp,
                   wqDirty, wqProcessing, crd, apiErrors, dropped, objectVars>>

\* the status is patched unless statusEqual finds the fetched one as it is;
\* the patch fails with not-found when the object was deleted since the Get;
\* the watch enqueues the request after a patch
StatusPatch ==
    /\ statusPc = "Patch"
    /\ IF statusEqual(fetched.Status, newStatus)
           THEN /\ StatusReturn
                /\ UNCHANGED <<wqDirty, crd, apiErrors, deletes>>
           ELSE \/ StatusReturnError
                \/ /\ ~crd.exists
                   /\ StatusRequeue
                   /\ UNCHANGED apiErrors
                \/ /\ crd.exists
                   /\ crd' = [crd EXCEPT !.Status = Stored(newStatus)]
                   /\ wqDirty' = TRUE
                   /\ StatusReturn
                   /\ UNCHANGED <<apiErrors, deletes>>
    /\ UNCHANGED <<statusFrame, reporterFrame>>

\* the status objects an earlier run of the process left: created for the
\* node, with the status of a cache that held one failure
EarlierObjects ==
    {[CreatedCRD(TheNode) EXCEPT
        !.Status = Stored(buildStatus(<<[Kind |-> key[1], Name |-> key[2],
                                         ErrorMessage |-> errorMessage(err)]>>, 1))] :
        key \in StatusKeys, err \in StatusErrors}

\* the state after NewStatusManager: the initial trigger is in the channel;
\* the node's status object is absent, or is what an earlier run of the
\* process left
InitStatus ==
    /\ apiConfig = ApiConfig(<<>>, <<>>, <<>>, <<>>)
    /\ hostHasUnderlay = FALSE
    /\ pc = "status"
    /\ l3idx = 1
    /\ l2idx = 1
    /\ retErr = NoError
    /\ calls = <<>>
    /\ reports = <<>>
    /\ failedResourceCache = NewStatusManager.failedResourceCache
    /\ triggerChannel = NewStatusManager.triggerChannel
    /\ ifName = <<>>
    /\ ifNameErr = NoError
    /\ ControllerIdle
    /\ mutex = "free"
    /\ reportPc = "idle"
    /\ reportOp = NoReportOp
    /\ wqDirty = FALSE
    /\ wqProcessing = FALSE
    /\ statusPc = "idle"
    /\ newStatus = NoStatus
    /\ crd \in {NoCRD} \cup EarlierObjects
    /\ unobserved = TRUE
    /\ apiErrors = 0
    /\ dropped = FALSE
    /\ fetched = NoCRD
    /\ deletes = 0
    /\ OthersIdle

NextStatus ==
    \/ ReportCall
    \/ ReportLock
    \/ ReportUnlock
    \/ ReportSend
    \/ ChannelReceive
    \/ StatusStart
    \/ StatusGet
    \/ StatusGetNode
    \/ StatusCreate
    \/ StatusReGet
    \/ StatusRLock
    \/ StatusRUnlock
    \/ StatusPatch

\* a goroutine that holds the lock, or has it free before it, goes on: the
\* statements between Lock and Unlock do not wait, and a sync.RWMutex lets
\* no waiter starve; the send after the unlock does not wait either
LockFairness ==
    /\ SF_vars(ReportLock)
    /\ WF_vars(ReportUnlock)
    /\ WF_vars(ReportSend)
    /\ WF_vars(StatusRUnlock)

\* the Report* calls return: nothing is assumed of the channel source, the
\* worker or the API server
SpecStatus ==
    InitStatus /\ [][NextStatus]_vars /\ LockFairness

\* the status controller keeps running: the channel source keeps receiving,
\* the worker takes a dirty request, and each API call of a pass returns,
\* with an error MaxApiErrors times at most
StatusControllerFairness ==
    /\ WF_vars(ChannelReceive)
    /\ WF_vars(StatusStart)
    /\ WF_vars(StatusGet)
    /\ WF_vars(StatusGetNode)
    /\ WF_vars(StatusCreate)
    /\ WF_vars(StatusReGet)
    /\ SF_vars(StatusRLock)
    /\ WF_vars(StatusPatch)

SpecStatusLive ==
    SpecStatus /\ StatusControllerFairness

----------------------------------------------------------------------------
(* The status controller while someone else deletes the node's status       *)
(* object: the watch on the kind enqueues the request at the delete.        *)

\* deletions of the status object by others in a run of the model
MaxDeletes ==
    1

\* kubectl delete of the node's RouterNodeConfigurationStatus
DeleteCRD ==
    /\ crd.exists
    /\ deletes < MaxDeletes
    /\ deletes' = deletes + 1
    /\ crd' = NoCRD
    /\ wqDirty' = TRUE
    /\ UNCHANGED <<statusFrame, reporterFrame, wqProcessing, statusPc, newStatus, apiErrors,
                   fetched>>

\* a Report* call from its entry to its return
ReportWhole ==
    /\ reportPc = "idle"
    /\ mutex = "free"
    /\ \E key \in StatusKeys :
        \E r \in {SuccessReport(key[1], key[2]), RemovedReport(key[1], key[2])}
                    \cup {FailureReport(key[1], key[2], err) : err \in StatusErrors} :
            /\ failedResourceCache' = ApplyReport(sm, r).failedResourceCache
            /\ triggerChannel' = ApplyReport(sm, r).triggerChannel
    /\ unobserved' = (unobserved \/ failedResourceCache' # failedResourceCache)
    /\ dropped' = (triggerChannel' = triggerChannel)
    /\ UNCHANGED <<statusFrame, mutex, reportPc, reportOp, wqDirty, wqProcessing, statusPc,
                   newStatus, crd, apiErrors, objectVars>>

NextObject ==
    \/ ReportWhole
    \/ ChannelReceive
    \/ StatusStart
    \/ StatusGet
    \/ StatusGetNode
    \/ StatusCreate
    \/ StatusReGet
    \/ StatusRLock
    \/ StatusRUnlock
    \/ StatusPatch
    \/ DeleteCRD

\* the status controller keeps running; nothing is assumed of the reports
\* and of the deletions
SpecObject ==
    InitStatus /\ [][NextObject]_vars /\ WF_vars(StatusRUnlock) /\ StatusControllerFairness

----------------------------------------------------------------------------
(* The status reconciler over a cache that does not change: the passes the  *)
(* initial trigger and the reconciler's own writes lead to.                 *)

\* the caches a pass is run on: no entry, one, two and three
PassCaches ==
    SUBSET {[ResourceKind |-> key[1], ResourceName |-> key[2],
             ErrorMessage |-> errorMessage(<<"host error">>)] : key \in ReportKeys}

\* the object with the status an earlier pass wrote for the cache
WrittenFor(cache) ==
    {[CreatedCRD(TheNode) EXCEPT !.Status = Stored(buildStatus(statusSummary, 1))] :
        statusSummary \in RangeOrders(GetStatusSummary(cache))}

InitPass ==
    /\ apiConfig = ApiConfig(<<>>, <<>>, <<>>, <<>>)
    /\ hostHasUnderlay = FALSE
    /\ pc = "pass"
    /\ l3idx = 1
    /\ l2idx = 1
    /\ retErr = NoError
    /\ calls = <<>>
    /\ reports = <<>>
    /\ failedResourceCache \in PassCaches
    /\ triggerChannel = NewStatusManager.triggerChannel
    /\ ifName = <<>>
    /\ ifNameErr = NoError
    /\ ControllerIdle
    /\ mutex = "free"
    /\ reportPc = "idle"
    /\ reportOp = NoReportOp
    /\ wqDirty = FALSE
    /\ wqProcessing = FALSE
    /\ statusPc = "idle"
    /\ newStatus = NoStatus
    /\ \/ crd = NoCRD
       \/ \E cache \in PassCaches : crd \in WrittenFor(cache)
    /\ unobserved = TRUE
    /\ apiErrors = 0
    /\ dropped = FALSE
    /\ fetched = NoCRD
    /\ deletes = 0
    /\ OthersIdle

NextPass ==
    \/ ChannelReceive
    \/ StatusStart
    \/ StatusGet
    \/ StatusGetNode
    \/ StatusCreate
    \/ StatusReGet
    \/ StatusRLock
    \/ StatusRUnlock
    \/ StatusPatch

SpecPass ==
    InitPass /\ [][NextPass]_vars

----------------------------------------------------------------------------
(* A controller pass beside the status controller: the pass sweeps the      *)
(* entries of deleted resources out of the cache, and the status controller *)
(* brings the status object up to date.  The Report* calls of the pass are  *)
(* taken as a whole.                                                        *)

\* one resource of each kind
SweepKeys ==
    {<<UnderlayKind, UnderlayName(1)>>, <<L3VNIKind, L3Name(1)>>, <<L2VNIKind, L2Name(1)>>,
     <<L3PassthroughKind, PassthroughName>>}

\* what the lists return
NothingListed ==
    ApiConfig(<<>>, <<>>, <<>>, <<>>)

UnderlayListed ==
    ApiConfig(<<GoodUnderlay(1)>>, <<>>, <<>>, <<>>)

OneOfEachListed ==
    ApiConfig(<<GoodUnderlay(1)>>, <<PassL3VNI(1, <<<<Red, 1>>, TRUE>>)>>,
              <<PassL2VNI(1, <<3, NoHostMaster>>)>>, <<GoodPassthrough>>)

\* the entry of the resource key
SweepEntry(key) ==
    {[ResourceKind |-> key[1], ResourceName |-> key[2],
      ErrorMessage |-> errorMessage(<<"host error">>)]}

\* the pass starts with the failure of one resource in the cache.  Nothing
\* or the Underlay alone is listed, and the status object shows the failure
\* of a resource of any kind; or one resource of each kind is listed and the
\* object shows the failure of the L3VNI; or nothing is listed and the
\* status object is still to be created.  The status controller is at rest.
InitSweep ==
    /\ \/ /\ apiConfig \in {NothingListed, UnderlayListed}
          /\ \E key \in SweepKeys : failedResourceCache = SweepEntry(key)
          /\ crd \in WrittenFor(failedResourceCache)
       \/ /\ apiConfig = OneOfEachListed
          /\ failedResourceCache = SweepEntry(<<L3VNIKind, L3Name(1)>>)
          /\ crd \in WrittenFor(failedResourceCache)
       \/ /\ apiConfig = NothingListed
          /\ failedResourceCache = SweepEntry(<<L2VNIKind, L2Name(1)>>)
          /\ crd = NoCRD
    /\ triggerChannel = IF crd.exists THEN 0 ELSE NewStatusManager.triggerChannel
    /\ hostHasUnderlay = FALSE
    /\ pc = "List"
    /\ l3idx = 1
    /\ l2idx = 1
    /\ retErr = NoError
    /\ calls = <<>>
    /\ reports = <<>>
    /\ ifName = <<>>
    /\ ifNameErr = NoError
    /\ ControllerIdle
    /\ mutex = "free"
    /\ reportPc = "idle"
    /\ reportOp = NoReportOp
    /\ wqDirty = FALSE
    /\ wqProcessing = FALSE
    /\ statusPc = "idle"
    /\ newStatus = NoStatus
    /\ unobserved = FALSE
    /\ apiErrors = 0
    /\ dropped = FALSE
    /\ fetched = NoCRD
    /\ deletes = 0
    /\ OthersIdle

NextSweep ==
    \/ NextController
    \/ NextPass

\* the pass goes on to its return and the status controller keeps running
SpecSweep ==
    /\ InitSweep
    /\ [][NextSweep]_vars
    /\ WF_vars(NextController)
    /\ WF_vars(StatusRUnlock)
    /\ StatusControllerFairness

----------------------------------------------------------------------------
(* GetStatusSummary called beside the Report* calls, a statement at a time:  *)
(* the read lock, one turn of the range over the map for each entry, the    *)
(* deferred unlock.  summary.read is the list the call builds,              *)
(* summary.instants the contents the cache had at the steps of the call.    *)

\* the resources reported on: two, so that a list can mix two contents
SummaryKeys ==
    {<<UnderlayKind, UnderlayName(1)>>, <<L3VNIKind, L3Name(1)>>}

summaryFrame ==
    <<apiConfig, hostHasUnderlay, pc, l3idx, l2idx, retErr, calls, reports, ifName, ifNameErr,
      controllerVars, store, admissions, workers, startup, firstPass, routerPod, passes,
      failedResourceCache,
      triggerChannel, reportPc, reportOp, wqDirty, wqProcessing, statusPc, newStatus, crd,
      unobserved, apiErrors, dropped, objectVars>>

\* a Report* call is entered by the goroutine of the configuration controller
SummaryReportCall ==
    /\ pc = "summary"
    /\ reportPc = "idle"
    /\ \E key \in SummaryKeys :
        \/ reportOp' = SuccessReport(key[1], key[2])
        \/ \E err \in StatusErrors : reportOp' = FailureReport(key[1], key[2], err)
        \/ reportOp' = RemovedReport(key[1], key[2])
    /\ reportPc' = "Lock"
    /\ UNCHANGED <<statusFrame, failedResourceCache, triggerChannel, mutex, wqDirty,
                   wqProcessing, statusPc, newStatus, crd, unobserved, apiErrors, dropped,
                   objectVars>>

\* the triggers are taken off the channel
SummaryChannelReceive ==
    /\ pc = "summary"
    /\ ChannelReceive

\* GetStatusSummary is called
SummaryCall ==
    /\ pc = "summary"
    /\ summary.pc = "idle"
    /\ summary' = [pc |-> "RLock", read |-> <<>>, instants |-> {failedResourceCache}]
    /\ UNCHANGED <<mutex, summaryFrame>>

\* er.failedResourceCacheMutex.RLock()
SummaryRLock ==
    /\ summary.pc = "RLock"
    /\ mutex = "free"
    /\ mutex' = "reader"
    /\ summary' = [summary EXCEPT !.pc = "range",
                                  !.instants = @ \cup {failedResourceCache}]
    /\ UNCHANGED summaryFrame

\* the keys of the list built so far
KeysRead ==
    {<<summary.read[i].Kind, summary.read[i].Name>> : i \in 1..Len(summary.read)}

\* the entries the range has not come to
NotYetRead ==
    {e \in failedResourceCache : <<e.ResourceKind, e.ResourceName>> \notin KeysRead}

\* one turn of the range over the map: the entry is appended to the list
SummaryRange ==
    /\ summary.pc = "range"
    /\ \E e \in NotYetRead :
        summary' = [summary EXCEPT
                        !.read = Append(@, [Kind |-> e.ResourceKind, Name |-> e.ResourceName,
                                            ErrorMessage |-> e.ErrorMessage]),
                        !.instants = @ \cup {failedResourceCache}]
    /\ UNCHANGED <<mutex, summaryFrame>>

\* the range is over: the deferred RUnlock runs and the list is returned
SummaryRUnlock ==
    /\ summary.pc = "range"
    /\ NotYetRead = {}
    /\ mutex' = "free"
    /\ summary' = [summary EXCEPT !.pc = "returned",
                                  !.instants = @ \cup {failedResourceCache}]
    /\ UNCHANGED summaryFrame

\* the caller is done with the list
SummaryDone ==
    /\ summary.pc = "returned"
    /\ summary' = NoSummary
    /\ UNCHANGED <<mutex, summaryFrame>>

InitSummary ==
    /\ apiConfig = ApiConfig(<<>>, <<>>, <<>>, <<>>)
    /\ hostHasUnderlay = FALSE
    /\ pc = "summary"
    /\ l3idx = 1
    /\ l2idx = 1
    /\ retErr = NoError
    /\ calls = <<>>
    /\ reports = <<>>
    /\ failedResourceCache = NewStatusManager.failedResourceCache
    /\ triggerChannel = NewStatusManager.triggerChannel
    /\ ifName = <<>>
    /\ ifNameErr = NoError
    /\ ControllerIdle
    /\ StatusIdle
    /\ OthersIdle

NextSummary ==
    \/ SummaryReportCall
    \/ ReportLock
    \/ ReportUnlock
    \/ ReportSend
    \/ SummaryChannelReceive
    \/ SummaryCall
    \/ SummaryRLock
    \/ SummaryRange
    \/ SummaryRUnlock
    \/ SummaryDone

SpecSummary ==
    InitSummary /\ [][NextSummary]_vars

----------------------------------------------------------------------------

(* The goroutines of the status controller (SetupWithManager:
   MaxConcurrentReconciles 1, one request key for the node) *)

\* controller.Options{MaxConcurrentReconciles: 1}
MaxConcurrentReconciles ==
    1

\* the goroutines a pass could run on, and the cache changes followed
Goroutines ==
    2

MaxVersions ==
    3

WorkerIdle ==
    [pc |-> "idle", built |-> 0]

workersFrame ==
    <<apiConfig, hostHasUnderlay, pc, l3idx, l2idx, retErr, calls, reports, ifName, ifNameErr,
      controllerVars, store, admissions, summary, startup, firstPass, routerPod, passes,
      failedResourceCache, mutex, reportPc, reportOp, statusPc, newStatus, crd, unobserved,
      apiErrors, dropped, objectVars>>

\* a pass for each trigger on a goroutine of its own, beside the workqueue
CanStart_GoroutinePerTrigger(w) ==
    wqDirty

\* the controller runs MaxConcurrentReconciles goroutines, and the workqueue
\* hands the one request key of the node to one of them at a time
CanStart(w) ==
    /\ w <= MaxConcurrentReconciles
    /\ wqDirty
    /\ ~wqProcessing

\* a Report* call changes the cache and sends the trigger
WorkerCacheChange ==
    /\ pc = "workers"
    /\ workers.version < MaxVersions
    /\ workers' = [workers EXCEPT !.version = @ + 1]
    /\ triggerChannel' = sendTriggerEvent(triggerChannel)
    /\ UNCHANGED <<workersFrame, wqDirty, wqProcessing>>

WorkerChannelReceive ==
    /\ pc = "workers"
    /\ ChannelReceive

\* a goroutine takes the request and enters Reconcile
WorkerStart ==
    /\ pc = "workers"
    /\ \E w \in DOMAIN workers.pass :
        /\ workers.pass[w].pc = "idle"
        /\ CanStart(w)
        /\ workers' = [workers EXCEPT !.pass[w].pc = "Build"]
    /\ wqDirty' = FALSE
    /\ wqProcessing' = TRUE
    /\ UNCHANGED <<workersFrame, triggerChannel>>

\* newStatus := r.buildStatus(): the snapshot of the cache
WorkerBuild ==
    /\ pc = "workers"
    /\ \E w \in DOMAIN workers.pass :
        /\ workers.pass[w].pc = "Build"
        /\ workers' = [workers EXCEPT !.pass[w] = [pc |-> "Patch", built |-> workers.version]]
    /\ UNCHANGED <<workersFrame, triggerChannel, wqDirty, wqProcessing>>

\* r.Status().Patch: the snapshot reaches the object, or the call fails and
\* the request is queued again
WorkerPatch ==
    /\ pc = "workers"
    /\ \E w \in DOMAIN workers.pass, ok \in BOOLEAN :
        /\ workers.pass[w].pc = "Patch"
        /\ workers' = [workers EXCEPT !.pass[w].pc = "Done",
                                      !.patched = IF ok THEN workers.pass[w].built ELSE @]
        /\ wqDirty' = (wqDirty \/ ~ok)
    /\ UNCHANGED <<workersFrame, triggerChannel, wqProcessing>>

\* Reconcile returns and the workqueue is told the request is done
WorkerDone ==
    /\ pc = "workers"
    /\ \E w \in DOMAIN workers.pass :
        /\ workers.pass[w].pc = "Done"
        /\ workers' = [workers EXCEPT !.pass[w] = WorkerIdle]
    /\ wqProcessing' = FALSE
    /\ UNCHANGED <<workersFrame, triggerChannel, wqDirty>>

InitWorkers ==
    /\ apiConfig = ApiConfig(<<>>, <<>>, <<>>, <<>>)
    /\ hostHasUnderlay = FALSE
    /\ pc = "workers"
    /\ l3idx = 1
    /\ l2idx = 1
    /\ retErr = NoError
    /\ calls = <<>>
    /\ reports = <<>>
    /\ failedResourceCache = NewStatusManager.failedResourceCache
    /\ triggerChannel = NewStatusManager.triggerChannel
    /\ ifName = <<>>
    /\ ifNameErr = NoError
    /\ ControllerIdle
    /\ StatusIdle
    /\ store = [L3VNIs |-> <<>>, L3Passthrough |-> <<>>]
    /\ admissions = <<>>
    /\ firstPass = NoFirstPass
    /\ routerPod = "Present"
    /\ passes = 0
    /\ summary = NoSummary
    /\ workers = [pass |-> [w \in 1..Goroutines |-> WorkerIdle], version |-> 0, patched |-> 0]
    /\ startup = Started

NextWorkers ==
    \/ WorkerCacheChange
    \/ WorkerChannelReceive
    \/ WorkerStart
    \/ WorkerBuild
    \/ WorkerPatch
    \/ WorkerDone

SpecWorkers ==
    InitWorkers /\ [][NextWorkers]_vars

(* part_004: main waits for the API server (waitForKubernetes,
   pingAPIServer) *)

\* the failed pings counted, and the longest interval in timer steps
MaxPings ==
    4

MaxInterval ==
    2

startupFrame ==
    <<apiConfig, hostHasUnderlay, pc, l3idx, l2idx, retErr, calls, reports, ifName, ifNameErr,
      controllerVars, store, admissions, summary, workers, firstPass, routerPod, passes,
      failedResourceCache, triggerChannel, reconcilerVars>>

\* config.GetConfig, kubernetes.NewForConfig, Discovery().ServerVersion()
pingAPIServer(kubeconfig, server) ==
    IF kubeconfig = "missing"
        THEN [cfg |-> FALSE, err |-> <<"failed to get incluster config">>]
    ELSE IF kubeconfig = "invalid"
        THEN [cfg |-> FALSE, err |-> <<"failed to get clientset">>]
    ELSE IF server # "up"
        THEN [cfg |-> FALSE, err |-> <<"failed to get serverversion">>]
    ELSE [cfg |-> TRUE, err |-> NoError]

\* the condition function of wait.PollUntilContextCancel: a failed ping is
\* (false, nil), a successful one sets config and is (true, nil); the poll
\* returns nil on true, and waitForKubernetes returns config
PollCondition ==
    /\ pc = "startup"
    /\ startup.pc = "ping"
    /\ LET ping == pingAPIServer(startup.kubeconfig, startup.server)
       IN  IF IsError(ping.err)
               THEN startup' = [startup EXCEPT !.pc = "wait",
                                               !.sinceTick = 0,
                                               !.pings = IF @ < MaxPings THEN @ + 1 ELSE @,
                                               !.lastErr = ping.err]
               ELSE startup' = [startup EXCEPT !.pc = "returned",
                                               !.config = ping.cfg,
                                               !.err = NoError]
    /\ UNCHANGED startupFrame

\* the poll waits for its timer; ctx is context.Background(), whose Done
\* channel is nil, so the timer is the only case of the select that fires
PollTimer ==
    /\ pc = "startup"
    /\ startup.pc = "wait"
    /\ startup' = IF startup.sinceTick + 1 >= startup.waitInterval
                      THEN [startup EXCEPT !.pc = "ping", !.sinceTick = 0]
                      ELSE [startup EXCEPT !.sinceTick = @ + 1]
    /\ UNCHANGED startupFrame

\* the API server beside main
ServerStarts ==
    /\ pc = "startup"
    /\ startup.pc # "returned"
    /\ startup.server = "down"
    /\ startup' = [startup EXCEPT !.server = "up"]
    /\ UNCHANGED startupFrame

ServerStops ==
    /\ pc = "startup"
    /\ startup.pc # "returned"
    /\ startup.server = "up"
    /\ startup' = [startup EXCEPT !.server = "down"]
    /\ UNCHANGED startupFrame

\* main calls waitForKubernetes(context.Background(), k8sWaitInterval); the
\* poll is immediate, so the first ping comes before any wait
InitStartup ==
    /\ apiConfig = ApiConfig(<<>>, <<>>, <<>>, <<>>)
    /\ hostHasUnderlay = FALSE
    /\ pc = "startup"
    /\ l3idx = 1
    /\ l2idx = 1
    /\ retErr = NoError
    /\ calls = <<>>
    /\ reports = <<>>
    /\ failedResourceCache = NewStatusManager.failedResourceCache
    /\ triggerChannel = NewStatusManager.triggerChannel
    /\ ifName = <<>>
    /\ ifNameErr = NoError
    /\ ControllerIdle
    /\ StatusIdle
    /\ store = [L3VNIs |-> <<>>, L3Passthrough |-> <<>>]
    /\ admissions = <<>>
    /\ firstPass = NoFirstPass
    /\ routerPod = "Present"
    /\ passes = 0
    /\ summary = NoSummary
    /\ workers = NoWorkers
    /\ \E interval \in 1..MaxInterval, kubeconfig \in {"missing", "invalid", "good"},
          server \in {"up", "down"} :
        startup = [pc |-> "ping", waitInterval |-> interval, sinceTick |-> 0, pings |-> 0,
                   kubeconfig |-> kubeconfig, server |-> server, config |-> FALSE,
                   err |-> NoError, lastErr |-> NoError]

PollSteps ==
    \/ PollCondition
    \/ PollTimer

NextStartup ==
    \/ PollCondition
    \/ PollTimer
    \/ ServerStarts
    \/ ServerStops

SpecStartup ==
    InitStartup /\ [][NextStartup]_vars /\ WF_vars(PollSteps)

(* l3vni_webhook.go: the validating webhook of the L3VNI objects, beside the *)
(* API server that calls it.  A request is admitted in steps: the handler    *)
(* lists the stored L3VNIs, validates them with the incoming object, lists  *)
(* the stored L3Passthroughs, validates the host sessions, and answers; the  *)
(* API server stores an admitted object afterwards.  Requests are served by  *)
(* one goroutine each, so the steps of two requests interleave.              *)

MaxAdmissions ==
    2

\* the i-th name of an L3VNI, counted in the order List returns the objects
NameIndex(name) ==
    CHOOSE i \in 1..MaxPassVNIs : L3Name(i) = name

\* the objects the requests carry: two names, VRFs and VNIs that clash or
\* not, without a host session or with the one session network
WebhookL3VNIs ==
    {L3VNI(L3Name(i), c[1], c[2], hs) :
        i \in 1..2, c \in {<<Red, 1>>, <<Blue, 2>>, <<Red, 2>>},
        hs \in {GoodL3Session(1), NoHostSession}}

\* the stored object of the name, as a sequence of one or none
StoredAs(name) ==
    SelectSeq(store.L3VNIs, LAMBDA existing : existing.Name = name)

\* the API server writes the object: in the place of the one of its name
Upsert(l3vnis, object) ==
    SelectSeq(l3vnis, LAMBDA existing : NameIndex(existing.Name) < NameIndex(object.Name))
        \o <<object>>
        \o SelectSeq(l3vnis, LAMBDA existing : NameIndex(existing.Name) > NameIndex(object.Name))

\* a plausible slip: the IPv4 field alone is compared
localCIDR_IPv4Only(hostSession) ==
    IF ~hostSession.set THEN <<EmptyCIDR, EmptyCIDR>>
    ELSE <<hostSession.IPv4, EmptyCIDR>>

\* localCIDR(hostSession)
localCIDR(hostSession) ==
    IF ~hostSession.set THEN <<EmptyCIDR, EmptyCIDR>>
    ELSE <<hostSession.IPv4, hostSession.IPv6>>

\* validateL3VNI: the loop that builds toValidate from the listed objects
toValidate(existingL3VNIs, l3vni) ==
    LET replaced == [i \in 1..Len(existingL3VNIs) |->
                        IF existingL3VNIs[i].Name = l3vni.Name
                            THEN l3vni ELSE existingL3VNIs[i]]
        found == \E i \in 1..Len(existingL3VNIs) : existingL3VNIs[i].Name = l3vni.Name
    IN  IF found THEN replaced ELSE replaced \o <<l3vni>>

webhookFrame ==
    <<apiConfig, hostHasUnderlay, pc, l3idx, l2idx, retErr, calls, reports,
      failedResourceCache, triggerChannel, ifName, ifNameErr, controllerVars,
      mutex, reportPc, reportOp, wqDirty, wqProcessing, statusPc, newStatus,
      crd, unobserved, apiErrors, dropped, objectVars, firstPass, routerPod, passes, workers,
      startup>>

\* the API server receives a create, or an update of a stored object, and
\* calls the webhook
AdmissionRequest ==
    /\ Len(admissions) < MaxAdmissions
    /\ \E operation \in {"CREATE", "UPDATE"}, l3vni \in WebhookL3VNIs :
           /\ operation = "UPDATE" => StoredAs(l3vni.Name) # <<>>
           /\ admissions' = Append(admissions,
                                   [Operation |-> operation,
                                    l3vni |-> l3vni,
                                    oldL3VNI |-> IF operation = "UPDATE"
                                                     THEN StoredAs(l3vni.Name) ELSE <<>>,
                                    toValidate |-> <<>>,
                                    step |-> "Handle"])
    /\ UNCHANGED <<store, summary, webhookFrame>>

\* the request takes the step
AdmissionStep(a, step) ==
    admissions' = [admissions EXCEPT ![a].step = step]

\* Handle to the first validation: validateL3VNIDelete, which returns nil,
\* or validateL3VNIUpdate's comparison of the local CIDRs, getL3VNIs, the
\* loop over the list, ValidateL3VNIs
HandleL3VNI(a) ==
    LET request == admissions[a]
        listed == toValidate(store.L3VNIs, request.l3vni)
    IN  /\ request.step = "Handle"
        /\ IF request.Operation = "DELETE"
               THEN AdmissionStep(a, "Allowed")
           ELSE IF /\ request.Operation = "UPDATE"
              /\ localCIDR(request.oldL3VNI[1].HostSession) # localCIDR(request.l3vni.HostSession)
               THEN AdmissionStep(a, "Denied")
           ELSE IF IsError(ValidateL3VNIs(listed).err)
               THEN AdmissionStep(a, "Denied")
           ELSE admissions' = [admissions EXCEPT ![a].toValidate = listed,
                                                 ![a].step = "getL3Passthroughs"]
        /\ UNCHANGED <<store, summary, webhookFrame>>

\* getL3Passthroughs, ValidateHostSessions, and the response
HandleHostSessions(a) ==
    LET request == admissions[a]
    IN  /\ request.step = "getL3Passthroughs"
        /\ IF IsError(ValidateHostSessions(request.toValidate, store.L3Passthrough).err)
               THEN AdmissionStep(a, "Denied")
               ELSE AdmissionStep(a, "Allowed")
        /\ UNCHANGED <<store, summary, webhookFrame>>

\* a list of the API reader fails: the error is the answer
ListFails(a) ==
    /\ admissions[a].step \in {"Handle", "getL3Passthroughs"}
    /\ admissions[a].Operation # "DELETE"
    /\ AdmissionStep(a, "Denied")
    /\ UNCHANGED <<store, summary, webhookFrame>>

\* the API server stores the admitted object: a create of a name in the
\* store and an update of an object that changed since the request are
\* refused; an admitted delete removes the object of the name
Persist(a) ==
    LET request == admissions[a]
    IN  /\ request.step = "Allowed"
        /\ IF request.Operation = "DELETE"
               THEN /\ AdmissionStep(a, IF StoredAs(request.l3vni.Name) = <<>>
                                            THEN "Conflict" ELSE "Stored")
                    /\ store' = [store EXCEPT !.L3VNIs =
                                    SelectSeq(@, LAMBDA existing :
                                                    existing.Name # request.l3vni.Name)]
           ELSE IF StoredAs(request.l3vni.Name) # request.oldL3VNI
               THEN /\ AdmissionStep(a, "Conflict")
                    /\ store' = store
               ELSE /\ AdmissionStep(a, "Stored")
                    /\ store' = [store EXCEPT !.L3VNIs = Upsert(@, request.l3vni)]
        /\ UNCHANGED <<summary, webhookFrame>>

InitWebhook ==
    /\ apiConfig = ApiConfig(<<>>, <<>>, <<>>, <<>>)
    /\ hostHasUnderlay = FALSE
    /\ pc = "webhook"
    /\ l3idx = 1
    /\ l2idx = 1
    /\ retErr = NoError
    /\ calls = <<>>
    /\ reports = <<>>
    /\ failedResourceCache = NewStatusManager.failedResourceCache
    /\ triggerChannel = NewStatusManager.triggerChannel
    /\ ifName = <<>>
    /\ ifNameErr = NoError
    /\ ControllerIdle
    /\ StatusIdle
    /\ firstPass = NoFirstPass
    /\ routerPod = "Present"
    /\ passes = 0
    /\ summary = NoSummary
    /\ workers = NoWorkers
    /\ startup = Started
    /\ admissions = <<>>
    /\ store \in {[L3VNIs |-> <<>>, L3Passthrough |-> pt] :
                     pt \in {<<>>, <<L3Passthrough(PassthroughName,
                                                   HostSession(2, 1, GoodL3Session(1).IPv4,
                                                               EmptyCIDR))>>}}

\* the host sessions the requests on one L3VNI carry: none, one with an empty
\* LocalCIDR, one network, the same with another ASN, the same with an IPv6
\* network beside it, and another network
AdmissionSessions ==
    {NoHostSession,
     HostSession(2, 1, EmptyCIDR, EmptyCIDR),
     GoodL3Session(1),
     HostSession(3, 1, GoodL3Session(1).IPv4, EmptyCIDR),
     HostSession(2, 1, GoodL3Session(1).IPv4, HostHigh("v6")),
     GoodL3Session(2)}

\* the API server receives a create, an update or a delete of the L3VNI and
\* calls the webhook; a delete carries the stored object as OldObject
L3VNIRequest ==
    /\ Len(admissions) < MaxAdmissions
    /\ \E operation \in {"CREATE", "UPDATE", "DELETE"}, hs \in AdmissionSessions :
        LET l3vni == L3VNI(L3Name(1), Red, 1, hs)
            stored == StoredAs(l3vni.Name)
        IN  /\ operation # "CREATE" => stored # <<>>
            /\ operation = "DELETE" => l3vni = stored[1]
            /\ admissions' = Append(admissions,
                                    [Operation |-> operation,
                                     l3vni |-> l3vni,
                                     oldL3VNI |-> IF operation = "CREATE" THEN <<>> ELSE stored,
                                     toValidate |-> <<>>,
                                     step |-> "Handle"])
    /\ UNCHANGED <<store, summary, webhookFrame>>

NextWebhook ==
    \/ AdmissionRequest
    \/ \E a \in DOMAIN admissions : HandleL3VNI(a)
    \/ \E a \in DOMAIN admissions : HandleHostSessions(a)
    \/ \E a \in DOMAIN admissions : ListFails(a)
    \/ \E a \in DOMAIN admissions : Persist(a)

NextAdmission ==
    \/ L3VNIRequest
    \/ \E a \in DOMAIN admissions : HandleL3VNI(a)
    \/ \E a \in DOMAIN admissions : HandleHostSessions(a)
    \/ \E a \in DOMAIN admissions : ListFails(a)
    \/ \E a \in DOMAIN admissions : Persist(a)

\* a store that holds the L3VNI, created with a session or without, or not
InitAdmission ==
    /\ apiConfig = ApiConfig(<<>>, <<>>, <<>>, <<>>)
    /\ hostHasUnderlay = FALSE
    /\ pc = "webhook"
    /\ l3idx = 1
    /\ l2idx = 1
    /\ retErr = NoError
    /\ calls = <<>>
    /\ reports = <<>>
    /\ failedResourceCache = NewStatusManager.failedResourceCache
    /\ triggerChannel = NewStatusManager.triggerChannel
    /\ ifName = <<>>
    /\ ifNameErr = NoError
    /\ ControllerIdle
    /\ StatusIdle
    /\ firstPass = NoFirstPass
    /\ routerPod = "Present"
    /\ passes = 0
    /\ summary = NoSummary
    /\ workers = NoWorkers
    /\ startup = Started
    /\ admissions = <<>>
    /\ store \in {[L3VNIs |-> l3vnis, L3Passthrough |-> pt] :
                     l3vnis \in {<<>>, <<L3VNI(L3Name(1), Red, 1, GoodL3Session(1))>>,
                                 <<L3VNI(L3Name(1), Red, 1, NoHostSession)>>},
                     pt \in {<<>>, <<GoodPassthrough>>}}

\* the requests on one L3VNI, from a store that holds it or not
SpecAdmission ==
    /\ InitAdmission
    /\ [][NextAdmission]_vars

SpecWebhook ==
    InitWebhook /\ [][NextWebhook]_vars

----------------------------------------------------------------------------

(* The validators called on their own, as the webhooks and the unit tests   *)
(* call them: one call on one resource set.                                 *)

NameSamples ==
    {<<>>, Eth0, Eno2161, DotFirst, TooLong}

\* the VTEP CIDR texts an Underlay is tried with
VTEPTexts ==
    {EmptyCIDR, GarbageCIDR} \cup CIDRTexts("v4")

PairsOfUnderlays ==
    {<<GoodUnderlay(1), GoodUnderlay(2)>>, <<BadUnderlay, GoodUnderlay(2)>>}

\* VRF name and VNI number of an entry
VNIChoices ==
    {Red, Blue, Green, DotFirst} \X (1..MaxVNIs)

\* an L2VNI names a VRF or, with none, is its own
L2VRFChoices ==
    {NoVRF, VRF(<<>>), VRF(Red), VRF(Blue), VRF(DotFirst)}

GatewayChoices ==
    {<<>>, <<NetLow("v4")>>, <<NetLow("v6")>>, <<NetLow("v4"), NetLow("v6")>>,
     <<NetLow("v4"), HostHigh("v4")>>, <<NetLow("v6"), HostHigh("v6")>>,
     <<GarbageCIDR>>, <<NetLow("v4"), GarbageCIDR>>}

HostMasterChoices ==
    {NoHostMaster, HostMaster(<<>>), HostMaster(Eth0), HostMaster(TooLong),
     HostMaster(DotFirst)}

\* the local CIDR texts a session is tried with: every text of the IPv4
\* family with none of IPv6, and three networks of IPv6 with any of three of IPv4
LocalCIDRChoices ==
    ((({EmptyCIDR, GarbageCIDR} \cup CIDRTexts("v4")) \X {EmptyCIDR})
        \cup ({EmptyCIDR, NetLow("v4"), HostHigh("v4")}
                \X {NetLow("v6"), HostLow("v6"), HostHigh("v6"), GarbageCIDR}))

SessionChoices ==
    {HostSession(2, 1, c[1], c[2]) : c \in LocalCIDRChoices}
        \cup {HostSession(1, 1, NetLow("v4"), EmptyCIDR)}

\* the networks as they are written without host bits
CanonicalTexts(fam) ==
    {t \in CIDRTexts(fam) : t.len <= AddrBits /\ MaskIP(t.ip, t.len) = t.ip}

SessionL3VNI(i, hs) ==
    L3VNI(L3Name(i), <<"v", Digit(i)>>, i, hs)

\* the resource sets ValidateUnderlays is tried on: none, one Underlay of
\* any shape, two Underlays
IsUnderlayInput(config) ==
    \/ config = ApiConfig(<<>>, <<>>, <<>>, <<>>)
    \/ \E asn \in {0, 1}, nb \in {<<>>, <<1>>, <<2>>, <<2, 1>>} :
        \E evpn \in {NoEVPN} \cup {EVPN(t) : t \in VTEPTexts} :
            \E nics \in SeqUpTo(NameSamples, 2) :
                config = ApiConfig(<<Underlay(UnderlayName(1), asn, nb, evpn, nics)>>,
                                   <<>>, <<>>, <<>>)
    \/ \E u \in PairsOfUnderlays : config = ApiConfig(u, <<>>, <<>>, <<>>)

\* the resource sets the VNI validators are tried on: L3VNIs and L2VNIs of
\* any VRF name and VNI, and L2VNIs that differ in the L2-specific fields
IsVNIInput(config) ==
    \/ \E k \in 0..MaxVNIs : \E cs \in [1..k -> VNIChoices] :
            config = ApiConfig(<<>>,
                               [i \in 1..k |-> L3VNI(L3Name(i), cs[i][1], cs[i][2],
                                                     NoHostSession)],
                               <<>>, <<>>)
    \/ \E k \in 0..MaxVNIs : \E cs \in [1..k -> L2VRFChoices \X (1..MaxVNIs)] :
            config = ApiConfig(<<>>, <<>>,
                               [i \in 1..k |-> L2VNI(L2Name(i), cs[i][1], cs[i][2],
                                                     NoHostMaster, <<>>)],
                               <<>>)
    \/ \E k \in 0..2 : \E cs \in [1..k -> {1, 2} \X HostMasterChoices \X GatewayChoices] :
            config = ApiConfig(<<>>, <<>>,
                               [i \in 1..k |-> L2VNI(L2Name(i), NoVRF, cs[i][1], cs[i][2],
                                                     cs[i][3])],
                               <<>>)

\* the resource sets ValidateHostSessions is tried on: up to two L3VNIs,
\* each with a session or none; an L3VNI and a passthrough; and two L3VNIs
\* and a passthrough, each with one IPv4 network; and two L3VNIs, one with
\* the IPv4 field set and one with the IPv6 field set, whatever the text in it
IsSessionInput(config) ==
    \/ \E k \in 0..2 : \E hs \in [1..k -> SessionChoices \cup {NoHostSession}] :
            config = ApiConfig(<<>>, [i \in 1..k |-> SessionL3VNI(i, hs[i])], <<>>, <<>>)
    \/ \E k \in 0..1 : \E hs \in [1..k -> SessionChoices \cup {NoHostSession}] :
        \E ps \in SessionChoices :
            config = ApiConfig(<<>>, [i \in 1..k |-> SessionL3VNI(i, hs[i])], <<>>,
                               <<L3Passthrough(PassthroughName, ps)>>)
    \/ \E a \in {NetLow("v4"), NetLow("v6")}, b \in {NetLow("v4"), NetLow("v6")} :
            config = ApiConfig(<<>>,
                               <<SessionL3VNI(1, HostSession(2, 1, a, EmptyCIDR)),
                                 SessionL3VNI(2, HostSession(2, 1, EmptyCIDR, b))>>,
                               <<>>, <<>>)
    \/ \E a \in CanonicalTexts("v4"), b \in CanonicalTexts("v4"), c \in CanonicalTexts("v4") :
            config = ApiConfig(<<>>,
                               <<SessionL3VNI(1, HostSession(2, 1, a, EmptyCIDR)),
                                 SessionL3VNI(2, HostSession(2, 1, b, EmptyCIDR))>>,
                               <<>>,
                               <<L3Passthrough(PassthroughName,
                                               HostSession(2, 1, c, EmptyCIDR))>>)

\* a validator is called and returns
ValidatorCall(outcome, returned) ==
    /\ pc = "call"
    /\ Reporting(outcome.reports)
    /\ pc' = returned
    /\ retErr' = outcome.err
    /\ UNCHANGED <<apiConfig, hostHasUnderlay, l3idx, l2idx, calls, ifName, ifNameErr,
                   controllerVars, statusVars>>

CallValidateUnderlays ==
    ValidatorCall(ValidateUnderlays(apiConfig.Underlays), "ValidateUnderlays")

CallValidateL3VNIs ==
    ValidatorCall(ValidateL3VNIs(apiConfig.L3VNIs), "ValidateL3VNIs")

CallValidateL2VNIs ==
    ValidatorCall(ValidateL2VNIs(apiConfig.L2VNIs), "ValidateL2VNIs")

CallValidateHostSessions ==
    ValidatorCall(ValidateHostSessions(apiConfig.L3VNIs, apiConfig.L3Passthrough),
                  "ValidateHostSessions")

InitValidate ==
    /\ \/ IsUnderlayInput(apiConfig)
       \/ IsVNIInput(apiConfig)
       \/ IsSessionInput(apiConfig)
    /\ hostHasUnderlay = FALSE
    /\ pc = "call"
    /\ l3idx = 1
    /\ l2idx = 1
    /\ retErr = NoError
    /\ calls = <<>>
    /\ reports = <<>>
    /\ failedResourceCache = NewStatusManager.failedResourceCache
    /\ triggerChannel = NewStatusManager.triggerChannel
    /\ ifName = <<>>
    /\ ifNameErr = NoError
    /\ ControllerIdle
    /\ StatusIdle
    /\ OthersIdle

NextValidate ==
    \/ CallValidateUnderlays
    \/ CallValidateL3VNIs
    \/ CallValidateL2VNIs
    \/ CallValidateHostSessions

SpecValidate ==
    InitValidate /\ [][NextValidate]_vars

----------------------------------------------------------------------------
(* isValidInterfaceName called on a name *)

NameAlphabet ==
    {"a", "Z", "7", ".", "_", "-", "/", " "}

\* the names the grammar is tried on: short names over the alphabet, each
\* also followed by a run of letters that brings it to the length limit and
\* past it, and the names of the tests
IsIfNameInput(name) ==
    \/ \E b \in SeqUpTo(NameAlphabet, MaxBase), n \in 0..(MaxPad + 3) : name = b \o Pad(n)
    \/ name \in NameSamples

CheckInterfaceName ==
    /\ pc = "call"
    /\ ifNameErr' = isValidInterfaceName(ifName)
    /\ pc' = "isValidInterfaceName"
    /\ UNCHANGED <<apiConfig, hostHasUnderlay, l3idx, l2idx, retErr, calls, reports,
                   failedResourceCache, triggerChannel, ifName, controllerVars, statusVars>>

InitIfName ==
    /\ IsIfNameInput(ifName)
    /\ ifNameErr = NoError
    /\ apiConfig = ApiConfig(<<>>, <<>>, <<>>, <<>>)
    /\ hostHasUnderlay = FALSE
    /\ pc = "call"
    /\ l3idx = 1
    /\ l2idx = 1
    /\ retErr = NoError
    /\ calls = <<>>
    /\ reports = <<>>
    /\ failedResourceCache = NewStatusManager.failedResourceCache
    /\ triggerChannel = NewStatusManager.triggerChannel
    /\ ControllerIdle
    /\ StatusIdle
    /\ OthersIdle

NextIfName ==
    CheckInterfaceName

SpecIfName ==
    InitIfName /\ [][NextIfName]_vars

----------------------------------------------------------------------------
(* Properties of a pass of Reconcile, checked under Spec *)

ValidationStages ==
    {"ValidateUnderlays", "ValidateL3VNIs", "ValidateL2VNIs", "ValidateHostSessions"}

\* some validator of Reconcile returns an error on the resource set
AnyValidatorRejects(config) ==
    \/ IsError(ValidateUnderlays(config.Underlays).err)
    \/ IsError(ValidateL3VNIs(config.L3VNIs).err)
    \/ IsError(ValidateL2VNIs(config.L2VNIs).err)
    \/ IsError(ValidateHostSessions(config.L3VNIs, config.L3Passthrough).err)

CallsOf(fns) ==
    {i \in 1..Len(calls) : calls[i].fn \in fns}

\* C1: when a validator returns an error on the resource set of the pass, the
\* pass never leaves the validation steps other than by returning an error,
\* and it makes no call on the FRR updater and none on the host network.
C1_ValidationErrorAbortsBeforeApply ==
    AnyValidatorRejects(apiConfig) =>
        /\ calls = <<>>
        /\ pc \in ValidationStages \cup {"done"}
        /\ pc = "done" => IsError(retErr)

\* two L3VNIs with the VRF "red": the pass has returned
C1_Witness ==
    /\ pc = "done"
    /\ Len(apiConfig.Underlays) = 1
    /\ ~IsError(ValidateUnderlays(apiConfig.Underlays).err)
    /\ Len(apiConfig.L3VNIs) = 2
    /\ apiConfig.L3VNIs[1].VRF = Red
    /\ apiConfig.L3VNIs[2].VRF = Red
    /\ IsError(retErr)
    /\ calls = <<>>

\* the VNIs of the L3VNIs and the L2VNIs together
CombinedVNIs(config) ==
    [i \in 1..Len(config.L3VNIs) |-> config.L3VNIs[i].VNI]
        \o [i \in 1..Len(config.L2VNIs) |-> config.L2VNIs[i].VNI]

NoSharedVNI(config) ==
    \A i, j \in 1..Len(CombinedVNIs(config)) :
        i # j => CombinedVNIs(config)[i] # CombinedVNIs(config)[j]

\* C3: once the four validation steps of a pass have succeeded, no two
\* resources of the L3VNIs and L2VNIs together carry the same VNI.
C3_NoSharedVNIAfterValidation ==
    pc = "configureFRR" => NoSharedVNI(apiConfig)

\* C9: in a pass, every host-network call comes after a successful FRR
\* update; every SetupL3VNI, SetupL2VNI, SetupPassthrough and
\* RemoveNonConfiguredVNIs call comes after a successful SetupUnderlay; every
\* SetupL3VNI call comes before every SetupL2VNI call.
C9_ApplyOrder ==
    /\ \A j \in CallsOf(HostCalls) :
        \E i \in 1..(j - 1) : calls[i].fn = "FRRUpdate" /\ calls[i].ok
    /\ \A j \in CallsOf({"SetupL3VNI", "SetupL2VNI", "SetupPassthrough",
                         "RemoveNonConfiguredVNIs"}) :
        \E i \in 1..(j - 1) : calls[i].fn = "SetupUnderlay" /\ calls[i].ok
    /\ \A i \in CallsOf({"SetupL3VNI"}), j \in CallsOf({"SetupL2VNI"}) : i < j

\* a pass that set up two L3VNIs, an L2VNI and the passthrough and removed
\* the stale VNIs
C9_Witness ==
    /\ pc = "done"
    /\ ~IsError(retErr)
    /\ Cardinality(CallsOf({"SetupL3VNI"})) = 2
    /\ Cardinality(CallsOf({"SetupL2VNI"})) >= 1
    /\ CallsOf({"SetupPassthrough"}) # {}
    /\ CallsOf({"RemoveNonConfiguredVNIs"}) # {}

\* the pass ran with no Underlay declared and an underlay interface in the
\* target namespace
UnderlayGone ==
    /\ pc = "done"
    /\ Len(apiConfig.Underlays) = 0
    /\ hostHasUnderlay

ReturnsUnderlayRemoved ==
    /\ \E i \in 1..Len(retErr) : retErr[i] = UnderlayRemovedError
    /\ nonRecoverableHostError(retErr)

\* C10 as stated: every such pass returns UnderlayRemovedError, classified
\* non-recoverable, and makes no host-network mutation.
C10_AsStated ==
    UnderlayGone => ReturnsUnderlayRemoved /\ CallsOf(HostMutations) = {}

\* C10, amended: such a pass makes no host-network mutation, and when it gets
\* to the underlay check of the host step and the check succeeds, so the
\* validators accepted and the FRR update succeeded, it returns
\* UnderlayRemovedError, classified non-recoverable.
C10_UnderlayRemoved ==
    UnderlayGone =>
        /\ CallsOf(HostMutations) = {}
        /\ (\E i \in CallsOf({"HasUnderlayInterface"}) : calls[i].ok)
                => ReturnsUnderlayRemoved

C10_Witness ==
    /\ UnderlayGone
    /\ Len(apiConfig.L3VNIs) > 0
    /\ retErr = HostError(<<UnderlayRemovedError>>)
    /\ CallsOf(HostMutations) = {}

----------------------------------------------------------------------------
(* Properties of the validators, checked under SpecValidate *)

FailureReports ==
    {i \in 1..Len(reports) : reports[i].op = "Failure"}

\* the entries the VNI validator that returned was given
CheckedVNIs ==
    IF pc = "ValidateL3VNIs" THEN vnisFromL3VNIs(apiConfig.L3VNIs)
    ELSE vnisFromL2VNIs(apiConfig.L2VNIs)

CheckedKind ==
    IF pc = "ValidateL3VNIs" THEN L3VNIKind ELSE L2VNIKind

Shares(vnis, i, j) ==
    i < j /\ (vnis[i].vni = vnis[j].vni \/ vnis[i].vrfName = vnis[j].vrfName)

SomeShare(vnis) ==
    \E i, j \in 1..Len(vnis) : Shares(vnis, i, j)

\* entry j cannot be taken after the entries before it
Offends(vnis, j) ==
    \/ IsError(isValidInterfaceName(vnis[j].vrfName))
    \/ \E i \in 1..(j - 1) : Shares(vnis, i, j)

FirstOffender(vnis) ==
    CHOOSE j \in 1..Len(vnis) :
        Offends(vnis, j) /\ \A k \in 1..(j - 1) : ~Offends(vnis, k)

VNIValidatorReturned ==
    pc \in {"ValidateL3VNIs", "ValidateL2VNIs"}

\* C2 as stated: on a list in which two entries share a VNI or a VRF name the
\* validator returns an error and the failure is recorded under the later
\* entry of a sharing pair.
C2_AsStated ==
    (VNIValidatorReturned /\ SomeShare(CheckedVNIs)) =>
        /\ IsError(retErr)
        /\ FailureReports # {}
        /\ \A r \in FailureReports :
            \E i, j \in 1..Len(CheckedVNIs) :
                Shares(CheckedVNIs, i, j) /\ reports[r].name = CheckedVNIs[j].name

\* C2, amended: on such a list the validator returns an error and records
\* exactly one failure, under the first entry in list order that has an
\* invalid VRF name or shares its VRF name or VNI with an earlier entry; when
\* every VRF name of the list is valid that entry is the later one of a
\* sharing pair.
C2_DuplicateReportedAtFirstOffender ==
    (VNIValidatorReturned /\ SomeShare(CheckedVNIs)) =>
        /\ IsError(retErr)
        /\ Len(reports) = 1
        /\ reports[1].op = "Failure"
        /\ reports[1].kind = CheckedKind
        /\ reports[1].name = CheckedVNIs[FirstOffender(CheckedVNIs)].name
        /\ failedResourceCache =
                {[ResourceKind |-> CheckedKind,
                  ResourceName |-> CheckedVNIs[FirstOffender(CheckedVNIs)].name,
                  ErrorMessage |-> <<"failed">> \o retErr]}
        /\ (\A k \in 1..Len(CheckedVNIs) :
                ~IsError(isValidInterfaceName(CheckedVNIs[k].vrfName)))
            => \E i \in 1..Len(CheckedVNIs) :
                    Shares(CheckedVNIs, i, FirstOffender(CheckedVNIs))

\* three L3VNIs, the third with the VNI of the first: reported under the third
C2_Witness ==
    /\ pc = "ValidateL3VNIs"
    /\ Len(apiConfig.L3VNIs) = 3
    /\ apiConfig.L3VNIs[1].VNI = apiConfig.L3VNIs[3].VNI
    /\ apiConfig.L3VNIs[1].VNI # apiConfig.L3VNIs[2].VNI
    /\ apiConfig.L3VNIs[1].VRF = Red
    /\ apiConfig.L3VNIs[2].VRF = Blue
    /\ apiConfig.L3VNIs[3].VRF = Green
    /\ retErr = <<"duplicate vni">>
    /\ reports = <<FailureReport(L3VNIKind, L3Name(3), retErr)>>

ValidatorReturned ==
    pc \in ValidationStages

\* C4: when a validator has returned an error, a failure has been recorded in
\* the status manager.
C4_EveryErrorRecorded ==
    (ValidatorReturned /\ IsError(retErr)) =>
        /\ FailureReports # {}
        /\ failedResourceCache # {}

----------------------------------------------------------------------------
(* Host sessions *)

\* the addresses of the network a CIDR text lies in
Addresses(text) ==
    LET size == Pow2(AddrBits - text.len)
        first == (text.ip \div size) * size
    IN  {first + k : k \in 0..(size - 1)}

Parses(text) ==
    text.fam \in Families /\ text.len \in 0..AddrBits

\* one prefix contains the other
Nested(a, b) ==
    /\ Parses(a)
    /\ Parses(b)
    /\ a.fam = b.fam
    /\ (Addresses(a) \subseteq Addresses(b) \/ Addresses(b) \subseteq Addresses(a))

CheckedSessions ==
    hostSessionInfos(apiConfig.L3VNIs, apiConfig.L3Passthrough)

LocalCIDRFields ==
    {"IPv4", "IPv6"}

\* two sessions whose LocalCIDRs of one family are nested
SessionsConflict(ss) ==
    \E i, j \in 1..Len(ss), f \in LocalCIDRFields :
        /\ i < j
        /\ ss[i].HostSession[f] # EmptyCIDR
        /\ ss[j].HostSession[f] # EmptyCIDR
        /\ Nested(ss[i].HostSession[f], ss[j].HostSession[f])

\* the rules of one session
BadSession(hs) ==
    \/ hs.ASN = hs.HostASN
    \/ hs.IPv4 = EmptyCIDR /\ hs.IPv6 = EmptyCIDR
    \/ \E f \in LocalCIDRFields : hs[f] # EmptyCIDR /\ ~Parses(hs[f])

SomeBadSession(ss) ==
    \E i \in 1..Len(ss) : BadSession(ss[i].HostSession)

\* C5: ValidateHostSessions returns an error when two sessions, of L3VNIs or
\* L3Passthroughs, have LocalCIDRs of one family of which one prefix contains
\* the other; it returns none on sessions that are each valid and whose
\* LocalCIDRs of one family are pairwise disjoint, whatever the LocalCIDRs of
\* the other family are.
C5_OverlapRejected ==
    pc = "ValidateHostSessions" =>
        /\ SessionsConflict(CheckedSessions) => IsError(retErr)
        /\ (~SessionsConflict(CheckedSessions) /\ ~SomeBadSession(CheckedSessions))
                => (~IsError(retErr) /\ reports = <<>>)

\* an L3VNI on 0/1 and a passthrough on the address 1: rejected under the
\* passthrough
C5_Witness ==
    /\ pc = "ValidateHostSessions"
    /\ Len(apiConfig.L3VNIs) = 1
    /\ Len(apiConfig.L3Passthrough) = 1
    /\ apiConfig.L3VNIs[1].HostSession.IPv4 = NetLow("v4")
    /\ apiConfig.L3Passthrough[1].HostSession.IPv4 = HostLow("v4")
    /\ retErr = <<"overlapping cidrs">>
    /\ reports = <<FailureReport(L3PassthroughKind, PassthroughName, retErr)>>

WithSession(l3VNIs) ==
    SelectSeq(l3VNIs, LAMBDA vni : vni.HostSession.set)

\* C6: ValidateHostSessions returns an error when a session has ASN equal to
\* HostASN, no LocalCIDR of either family, or a LocalCIDR that does not
\* parse; the L3VNIs without a HostSession change nothing in what it returns
\* and no failure is recorded under one of them.
C6_SessionRules ==
    pc = "ValidateHostSessions" =>
        /\ SomeBadSession(CheckedSessions) => IsError(retErr)
        /\ retErr = ValidateHostSessions(WithSession(apiConfig.L3VNIs),
                                         apiConfig.L3Passthrough).err
        /\ \A r \in 1..Len(reports), i \in 1..Len(apiConfig.L3VNIs) :
            ~apiConfig.L3VNIs[i].HostSession.set
                => ~(reports[r].kind = L3VNIKind /\ reports[r].name = apiConfig.L3VNIs[i].Name)

\* an L3VNI without a session, then one whose ASN is its HostASN
C6_Witness ==
    /\ pc = "ValidateHostSessions"
    /\ Len(apiConfig.L3VNIs) = 2
    /\ ~apiConfig.L3VNIs[1].HostSession.set
    /\ apiConfig.L3VNIs[2].HostSession.set
    /\ apiConfig.L3VNIs[2].HostSession.ASN = apiConfig.L3VNIs[2].HostSession.HostASN
    /\ retErr = <<"local ASN must be different from remote ASN">>
    /\ reports = <<FailureReport(L3VNIKind, L3Name(2), retErr)>>

----------------------------------------------------------------------------
(* Underlays *)

\* the rules the Underlay of a set is held to, the ASN left aside
BreaksListedRule(u) ==
    \/ \E i \in 1..Len(u.Neighbors) : u.Neighbors[i] = u.ASN
    \/ u.EVPN.set /\ ~Parses(u.EVPN.VTEPCIDR)
    \/ Len(u.Nics) > 1
    \/ \E i \in 1..Len(u.Nics) : IsError(isValidInterfaceName(u.Nics[i]))

\* C7 as stated: ValidateUnderlays returns an error exactly when it is given
\* more than one Underlay or the single Underlay has a neighbor with the
\* local ASN, an EVPN VTEP CIDR that does not parse, more than one NIC or a
\* NIC name outside the grammar.
C7_AsStated ==
    pc = "ValidateUnderlays" =>
        (IsError(retErr) <=>
            \/ Len(apiConfig.Underlays) > 1
            \/ Len(apiConfig.Underlays) = 1 /\ BreaksListedRule(apiConfig.Underlays[1]))

\* C7, amended: ValidateUnderlays returns an error exactly when it is given
\* more than one Underlay or the single Underlay has ASN 0, a neighbor with
\* the local ASN, an EVPN VTEP CIDR that does not parse, more than one NIC or
\* a NIC name outside the grammar; no Underlay, and one that does none of
\* these, are accepted with nothing reported.
C7_UnderlayRules ==
    pc = "ValidateUnderlays" =>
        /\ IsError(retErr) <=>
            \/ Len(apiConfig.Underlays) > 1
            \/ /\ Len(apiConfig.Underlays) = 1
               /\ \/ apiConfig.Underlays[1].ASN = 0
                  \/ BreaksListedRule(apiConfig.Underlays[1])
        /\ ~IsError(retErr) => reports = <<>>

\* two Underlays, each one valid on its own
C7_Witness ==
    /\ pc = "ValidateUnderlays"
    /\ apiConfig.Underlays = <<GoodUnderlay(1), GoodUnderlay(2)>>
    /\ retErr = <<"can't have more than one underlay">>

----------------------------------------------------------------------------
(* Interface names, checked under SpecIfName *)

NameCharacters ==
    Letters \cup Digits \cup {".", "_", "-"}

\* the grammar in words: not empty, at most 15 characters, a letter first,
\* then letters, digits, '.', '_' and '-'
InGrammar(name) ==
    /\ name # <<>>
    /\ Len(name) <= MaxIfNameLen
    /\ Head(name) \in Letters
    /\ {name[i] : i \in 1..Len(name)} \subseteq NameCharacters

\* C8: isValidInterfaceName accepts a name if and only if the name is in the
\* grammar; it accepts eno2.161 and rejects a name that starts with a dot
\* and a name of sixteen characters.
C8_InterfaceNameGrammar ==
    pc = "isValidInterfaceName" =>
        /\ ~IsError(ifNameErr) <=> InGrammar(ifName)
        /\ ifName = Eno2161 => ~IsError(ifNameErr)
        /\ ifName \in {DotFirst, TooLong} => IsError(ifNameErr)

\* a name of exactly fifteen characters with a dot in it, accepted
C8_Witness ==
    /\ pc = "isValidInterfaceName"
    /\ Len(ifName) = MaxIfNameLen
    /\ ifName[2] = "."
    /\ ~IsError(ifNameErr)

----------------------------------------------------------------------------
(* Classification of what a pass returns, checked under Spec *)

LastCall ==
    calls[Len(calls)]

\* the pass found an underlay interface and no Underlay declared
EndedOnRemovedUnderlay ==
    /\ calls # <<>>
    /\ LastCall = Call("HasUnderlayInterface", <<>>, TRUE)
    /\ hostHasUnderlay
    /\ Len(apiConfig.Underlays) = 0

\* SetupUnderlay returned the host-network layer's UnderlayExistsError
EndedOnUnderlayExists ==
    /\ calls # <<>>
    /\ LastCall.fn = "SetupUnderlay"
    /\ ~LastCall.ok
    /\ reports # <<>>
    /\ reports[Len(reports)].err = <<UnderlayExistsError>>

InChain(e, kinds) ==
    \E i \in 1..Len(e) : e[i] \in kinds

\* C11: the error a pass returned is classified non-recoverable exactly when
\* its wrap chain holds UnderlayRemovedError or UnderlayExistsError, which is
\* exactly when the pass ended on a removed Underlay or on SetupUnderlay
\* returning UnderlayExistsError; nil, a validation error, an FRR error and
\* every other host error are recoverable.
C11_NonRecoverableClassification ==
    pc = "done" =>
        /\ nonRecoverableHostError(retErr)
                <=> InChain(retErr, {UnderlayRemovedError, UnderlayExistsError})
        /\ nonRecoverableHostError(retErr)
                <=> (EndedOnRemovedUnderlay \/ EndedOnUnderlayExists)
        /\ retErr = NoError => ~nonRecoverableHostError(retErr)
        /\ calls = <<>> => ~nonRecoverableHostError(retErr)
        /\ (calls # <<>> /\ LastCall.fn = "FRRUpdate") => ~nonRecoverableHostError(retErr)

\* SetupUnderlay failed with UnderlayExistsError and the pass returned it wrapped
C11_Witness ==
    /\ pc = "done"
    /\ EndedOnUnderlayExists
    /\ retErr = HostError(Wrap("failed to setup underlay", <<UnderlayExistsError>>))
    /\ nonRecoverableHostError(retErr)

----------------------------------------------------------------------------
(* What configureInterfaces reports, checked under Spec *)

SetupCalls ==
    {"SetupUnderlay", "SetupL3VNI", "SetupL2VNI", "SetupPassthrough"}

\* the resources of the pass as <<kind, name>>, in the order
\* configureInterfaces applies them
ApplyOrder ==
    [i \in 1..Len(apiConfig.Underlays) |-> <<UnderlayKind, apiConfig.Underlays[i].Name>>]
        \o [i \in 1..Len(apiConfig.L3VNIs) |-> <<L3VNIKind, apiConfig.L3VNIs[i].Name>>]
        \o [i \in 1..Len(apiConfig.L2VNIs) |-> <<L2VNIKind, apiConfig.L2VNIs[i].Name>>]
        \o [i \in 1..Len(apiConfig.L3Passthrough) |->
                <<L3PassthroughKind, apiConfig.L3Passthrough[i].Name>>]

\* the host apply of a resource has just failed
HostApplyFailed ==
    /\ calls # <<>>
    /\ LastCall.fn \in SetupCalls
    /\ ~LastCall.ok

\* the reports of kind op made for the resource key
ReportsFor(op, key) ==
    {i \in 1..Len(reports) : reports[i].op = op /\ <<reports[i].kind, reports[i].name>> = key}

\* C15: when the host apply of a resource R fails, R is the k-th resource in
\* apply order for some k, a failure is recorded for R, a success was
\* recorded for each of the k-1 resources applied before it, and nothing is
\* reported for the resources after it; the cache holds R's entry alone.
C15_FailureStopsReporting ==
    HostApplyFailed =>
        LET k == Len(reports)
        IN  /\ pc = "done"
            /\ k \in 1..Len(ApplyOrder)
            /\ LastCall.arg = ApplyOrder[k][2]
            /\ reports[k].op = "Failure"
            /\ <<reports[k].kind, reports[k].name>> = ApplyOrder[k]
            /\ IsError(reports[k].err)
            /\ \A i \in 1..(k - 1) :
                    reports[i] = SuccessReport(ApplyOrder[i][1], ApplyOrder[i][2])
            /\ \A i \in (k + 1)..Len(ApplyOrder) :
                    /\ ReportsFor("Failure", ApplyOrder[i]) = {}
                    /\ ReportsFor("Success", ApplyOrder[i]) = {}
            /\ failedResourceCache =
                    {[ResourceKind |-> ApplyOrder[k][1], ResourceName |-> ApplyOrder[k][2],
                      ErrorMessage |-> errorMessage(reports[k].err)]}

\* the second of two L3VNIs failed, after the Underlay and the first L3VNI
\* were applied, with an L2VNI still to come
C15_Witness ==
    /\ HostApplyFailed
    /\ LastCall.fn = "SetupL3VNI"
    /\ Len(reports) = 3
    /\ Len(ApplyOrder) > 3
    /\ reports[1].op = "Success"
    /\ reports[3].op = "Failure"

----------------------------------------------------------------------------
(* The controller pass, checked under SpecController *)

RecoveryCalls ==
    CallsOf({"HandleNonRecoverableError"})

\* C12: Router.HandleNonRecoverableError is called exactly once in a pass
\* whose pipeline returned a non-recoverable error, the call being made once
\* the pipeline has returned, and never in a pass whose pipeline returned nil
\* or a recoverable error, nor in a pass that did not get to the pipeline.
C12_RecoveryExactlyOnNonRecoverable ==
    Cardinality(RecoveryCalls) =
        IF pc = "returned" /\ nonRecoverableHostError(retErr) THEN 1 ELSE 0

\* the Underlay was removed and the pass ended with the one recovery call
C12_Witness ==
    /\ pc = "returned"
    /\ retErr = HostError(<<UnderlayRemovedError>>)
    /\ Cardinality(RecoveryCalls) = 1
    /\ LastCall.fn = "HandleNonRecoverableError"

\* the pipeline returned a non-recoverable error and the recovery succeeded
RecoverySucceeded ==
    /\ pc = "returned"
    /\ nonRecoverableHostError(retErr)
    /\ calls # <<>>
    /\ LastCall = Call("HandleNonRecoverableError", <<>>, TRUE)

\* C13 as stated: after a non-recoverable error and a successful recovery
\* the pass returns no error to the reconcile framework.
C13_RecoveredErrorSwallowed ==
    RecoverySucceeded => result.err = NoError

\* the stages of the pass up to the readiness gate
GateStages ==
    {"List", "NodeIndex", "NewRouter", "TargetNS", "CanReconcile"}

\* a step of the pass up to and at the gate makes no call
GateStepCallsNothing ==
    pc \in GateStages
        => UNCHANGED <<failedResourceCache, triggerChannel, calls, reports>>

\* C14: a pass that reaches the readiness gate with a router pod that is not
\* both Ready and ContainersReady returns no error and a requeue after 5
\* seconds; up to and at the gate no FRR call, no host-network call and no
\* StatusReporter call is made, and the cache and the trigger channel stay
\* as they were.
C14_NotReadyRequeues ==
    /\ [](pc = "returned" /\ ~(podReady /\ containersReady) /\ ~IsError(result.err)
            => /\ result = [RequeueAfter |-> RequeueSeconds, err |-> NoError]
               /\ calls = <<>>
               /\ reports = <<>>
               /\ failedResourceCache \in EarlierFailures
               /\ triggerChannel = NewStatusManager.triggerChannel)
    /\ [][GateStepCallsNothing]_vars

\* Ready without ContainersReady: the pass stopped at the gate, with an
\* entry in the cache that the cleanup after the gate would have dropped
C14_Witness ==
    /\ pc = "returned"
    /\ podReady
    /\ ~containersReady
    /\ result = [RequeueAfter |-> RequeueSeconds, err |-> NoError]
    /\ \E e \in failedResourceCache :
            <<e.ResourceKind, e.ResourceName>> \notin CurrentResources

\* the FRR apply of the pass failed
FRRApplyFailed ==
    \E i \in 1..Len(calls) : calls[i] = Call("FRRUpdate", <<>>, FALSE)

\* C16 as stated: a pass with an Underlay declared whose FRR apply failed
\* makes no host-network call and ends with a failure entry for that
\* Underlay in the cache.
C16_FRRFailureRecordedForUnderlay ==
    (pc = "returned" /\ FRRApplyFailed /\ Len(apiConfig.Underlays) > 0)
        => /\ CallsOf(HostCalls) = {}
           /\ \A i \in 1..Len(apiConfig.Underlays) :
                <<UnderlayKind, apiConfig.Underlays[i].Name>> \in CacheKeys(failedResourceCache)

----------------------------------------------------------------------------
(* The cache after a sequence of reports, checked under SpecReports *)

\* the entries the cache holds under key
EntriesOf(key) ==
    {e \in failedResourceCache : <<e.ResourceKind, e.ResourceName>> = key}

\* the calls made for key, as indices of the log
ReportsOn(key) ==
    {i \in 1..Len(reports) : <<reports[i].kind, reports[i].name>> = key}

LastReportOn(key) ==
    reports[CHOOSE i \in ReportsOn(key) : \A j \in ReportsOn(key) : j <= i]

\* C17: after any sequence of ReportResourceSuccess, ReportResourceFailure
\* and ReportResourceRemoved calls the cache holds an entry for a key exactly
\* when the last call made for that key was a ReportResourceFailure; the
\* entry carries the message of that failure; no key has two entries.
C17_CacheHoldsLastFailure ==
    pc = "report" =>
        \A key \in ReportKeys :
            /\ Cardinality(EntriesOf(key)) <= 1
            /\ EntriesOf(key) # {}
                    <=> (ReportsOn(key) # {} /\ LastReportOn(key).op = "Failure")
            /\ \A e \in EntriesOf(key) :
                    e.ErrorMessage = errorMessage(LastReportOn(key).err)

\* a key that failed twice with different errors, another call in between
\* or after, holds the one entry with the second message
C17_Witness ==
    /\ pc = "report"
    /\ Len(reports) = 3
    /\ \E key \in ReportKeys :
        /\ Cardinality(ReportsOn(key)) = 2
        /\ reports[1].op = "Failure"
        /\ <<reports[1].kind, reports[1].name>> = key
        /\ LastReportOn(key).op = "Failure"
        /\ LastReportOn(key).err # reports[1].err
        /\ EntriesOf(key) = {[ResourceKind |-> key[1], ResourceName |-> key[2],
                              ErrorMessage |-> errorMessage(LastReportOn(key).err)]}

----------------------------------------------------------------------------
(* The StatusManager beside the status reconciler, checked under SpecStatus *)
(* and SpecStatusLive                                                       *)

\* the API calls of a status reconcile pass
StatusIO ==
    {"Get", "Create", "ReGet", "Patch"}

\* a send that finds the channel full leaves it as it is and returns
FullChannelDrops ==
    (reportPc = "Send" /\ triggerChannel = TriggerChannelCap /\ reportPc' # reportPc)
        => (reportPc' = "idle" /\ triggerChannel' = triggerChannel /\ dropped')

\* C18: a Report* call that has been entered returns, whatever the channel
\* holds and wherever the status reconciler is, with nothing assumed of the
\* receiver of the channel or of the API server: the write lock is held only
\* between Lock and Unlock and not at the channel send, the read lock only
\* inside GetStatusSummary and not during an API call, the send is possible
\* at any occupancy of the channel, and on a full channel the trigger is
\* dropped.
C18_ReportsAlwaysReturn ==
    /\ [](mutex = "writer" <=> reportPc = "Locked")
    /\ [](mutex = "reader" <=> statusPc = "Read")
    /\ [](reportPc = "Send" => mutex # "writer")
    /\ [](statusPc \in StatusIO => mutex # "reader")
    /\ [](reportPc = "Send" => ENABLED ReportSend)
    /\ [][FullChannelDrops]_vars
    /\ (reportPc # "idle" ~> reportPc = "idle")

\* a call returned with its trigger dropped on the full channel while a pass
\* of the status reconciler was at its Patch
C18_Witness ==
    /\ reportPc = "idle"
    /\ dropped
    /\ triggerChannel = TriggerChannelCap
    /\ statusPc = "Patch"

\* C19: once a call has changed the cache, a pass of the status reconciler
\* reads the cache after the change, if the status controller keeps
\* running; this is so also when the trigger of the call was dropped.
C19_ChangeIsRead ==
    /\ (unobserved ~> ~unobserved)
    /\ ((unobserved /\ dropped /\ reportPc = "idle") ~> statusPc = "Read")

\* the cache was changed, the call returned with its trigger dropped, and
\* the status controller has nothing enqueued and no pass running
C19_Witness ==
    /\ unobserved
    /\ dropped
    /\ reportPc = "idle"
    /\ failedResourceCache # {}
    /\ ~wqDirty
    /\ statusPc = "idle"

CacheEntry(key, err) ==
    [ResourceKind |-> key[1], ResourceName |-> key[2], ErrorMessage |-> errorMessage(err)]

\* the failed resources the stored status lists
FailedResourcesOf(status) ==
    {status.FailedResources.elems[i] : i \in 1..Len(status.FailedResources.elems)}

\* the conditions of a status
ConditionsOf(status) ==
    {status.Conditions.elems[i] : i \in 1..Len(status.Conditions.elems)}

\* the values of the conditions of the type t in a status
ConditionOf(status, t) ==
    {c.Status : c \in {d \in ConditionsOf(status) : d.Type = t}}

ShownResources ==
    FailedResourcesOf(crd.Status)

\* the node's status object lists the resource key as failed
ShownFailed(key) ==
    \E f \in ShownResources : f.Kind = key[1] /\ f.Name = key[2]

\* C20: a failure recorded for a resource comes to be listed in the status
\* object with the kind and the name of the resource, unless the entry is
\* dropped from the cache first; and an empty cache comes to be shown as a
\* status object without failed resources, unless a failure is recorded
\* first; both if the status controller keeps running.
C20_StatusFollowsCache ==
    /\ \A key \in StatusKeys : \A err \in StatusErrors :
            (CacheEntry(key, err) \in failedResourceCache)
                ~> (\/ /\ crd.exists
                       /\ ShownFailed(key)
                       /\ \A f \in ShownResources : f.Name # <<>>
                    \/ CacheEntry(key, err) \notin failedResourceCache)
    /\ (failedResourceCache = {})
            ~> (\/ /\ crd.exists
                   /\ ShownResources = {}
                   /\ ConditionOf(crd.Status, "Ready") = {"True"}
                \/ failedResourceCache # {})

\* the status object lists the failed resource the cache holds, after it
\* had been created by the reconciler
C20_Witness ==
    /\ failedResourceCache # {}
    /\ ShownResources = {FailedResource(f) : f \in GetStatusSummary(failedResourceCache)}
    /\ ConditionOf(crd.Status, "Ready") = {"False"}
    /\ statusPc = "idle"
    /\ ~unobserved

----------------------------------------------------------------------------
\* the errors of the steps of a pass before the pipeline: a List, the node
\* index, the router pod, its network namespace
InfrastructureErrors ==
    {<<"list failed">>,
     <<"failed to get node">>,
     Wrap("failed to get router pod instance", <<"failed to fetch router pod for node">>),
     Wrap("failed to retrieve target namespace", <<"failed to retrieve namespace for pod">>)}

\* the step of a pass that fails before the pipeline returns the error with
\* no requeue delay of its own and reports nothing
InfrastructureFailureReturns ==
    pc \in GateStages /\ pc' = "returned" /\ IsError(result'.err)
        => /\ result' \in [RequeueAfter : {0}, err : InfrastructureErrors]
           /\ UNCHANGED <<failedResourceCache, triggerChannel, reports, calls>>

----------------------------------------------------------------------------
\* the resources the reports rs are about, as <<kind, name>>
ReportedKeys(rs) ==
    {<<rs[i].kind, rs[i].name>> : i \in 1..Len(rs)}

\* the reports made in this step
NewReports ==
    SubSeq(reports', Len(reports) + 1, Len(reports'))

\* a validation statement that passes reports nothing; one that rejects
\* reports failures of one resource at most; the entries of every other
\* resource are the same after the step as before
ValidationStepFrame ==
    pc \in ValidationStages
        => /\ IF pc' = "done"
                  THEN /\ Cardinality(ReportedKeys(NewReports)) <= 1
                       /\ \A i \in 1..Len(NewReports) : NewReports[i].op = "Failure"
                  ELSE /\ NewReports = <<>>
                       /\ failedResourceCache' = failedResourceCache
           /\ \A e \in failedResourceCache \cup failedResourceCache' :
                <<e.ResourceKind, e.ResourceName>> \notin ReportedKeys(NewReports)
                    => (e \in failedResourceCache <=> e \in failedResourceCache')

\* C29: when a validator rejects the resource set, the pipeline has changed
\* the cache entry of the resource the validator reported and of no other:
\* the validation statements that passed before changed nothing, and the
\* rejecting one leaves every other resource with the entry, or without an
\* entry, as it found it; the rejected resource ends with the entry of this
\* rejection.
C29_RejectionTouchesOneEntry ==
    /\ [][ValidationStepFrame]_vars
    /\ [](pc = "done" /\ calls = <<>> /\ IsError(retErr) /\ reports # <<>>
            /\ reports[Len(reports)].op = "Failure"
            => \E e \in failedResourceCache :
                /\ e.ResourceKind = reports[Len(reports)].kind
                /\ e.ResourceName = reports[Len(reports)].name
                /\ e.ErrorMessage = errorMessage(reports[Len(reports)].err))

\* the L3VNIs were rejected on a pass that started with the entry of the
\* Underlay: the cache holds that entry and the one of the rejected L3VNI
C29_Witness ==
    /\ pc = "done"
    /\ retErr[1] = "failed to validate l3vnis"
    /\ \E e \in failedResourceCache : e.ResourceKind = UnderlayKind
    /\ \E e \in failedResourceCache : e.ResourceKind = L3VNIKind
    /\ Cardinality(failedResourceCache) = 2

----------------------------------------------------------------------------
\* the owner reference to the Node of the node
NodeOwnerReference ==
    [APIVersion |-> "v1", Kind |-> "Node", Name |-> TheNode.Name, UID |-> TheNode.UID]

\* the object is named after the node, lives in the namespace of the
\* controller and is owned by the Node
OwnedByNode(object) ==
    /\ object.Name = MyNode
    /\ object.Namespace = MyNamespace
    /\ object.OwnerReferences = <<NodeOwnerReference>>

\* an object appears only at r.Create, which is reached only from a read of
\* the Node that succeeded; a pass that ends at the read of the Node leaves
\* the object absent
CreatedAfterNodeRead ==
    /\ ~crd.exists /\ crd'.exists => statusPc = "Create" /\ OwnedByNode(crd')
    /\ statusPc # "Create" /\ statusPc' = "Create" => statusPc = "GetNode"
    /\ statusPc = "GetNode" /\ statusPc' \notin {"GetNode", "Create"}
            => statusPc' = "idle" /\ ~crd'.exists /\ wqDirty'

\* C23: the RouterNodeConfigurationStatus the controller creates has the name
\* of the node, the namespace of the controller and one owner reference, of
\* kind Node, API version v1, with the name and the UID of the Node of that
\* name, and it keeps them when its status is patched; a pass in which the
\* Node cannot be read creates no object and is retried.
C23_CreatedObjectOwnedByNode ==
    /\ [](crd.exists => OwnedByNode(crd))
    /\ [][CreatedAfterNodeRead]_vars

\* the object has just been created, in a pass that came after one that
\* failed at an API call
C23_Witness ==
    /\ statusPc = "ReGet"
    /\ crd.exists
    /\ crd.Status = NoStatus
    /\ crd.OwnerReferences[1].UID = TheNode.UID
    /\ apiErrors = MaxApiErrors

----------------------------------------------------------------------------
\* C22: once the StatusManager has been made and the status controller runs,
\* a RouterNodeConfigurationStatus for the node comes to exist, named after
\* the node, also when no Report* call is ever made: the trigger that
\* NewStatusManager sends is enough to start the pass that creates it.
C22_StatusObjectCreated ==
    <>(crd.exists /\ crd.Name = MyNode)

\* the object has just been created by the first pass, which the initial
\* trigger started: nothing is in the cache, no call is in progress, no
\* trigger is left, the cache has not been read and no API call has failed
C22_Witness ==
    /\ statusPc = "ReGet"
    /\ crd.exists
    /\ crd.Status = NoStatus
    /\ failedResourceCache = {}
    /\ reportPc = "idle"
    /\ triggerChannel = 0
    /\ unobserved
    /\ apiErrors = 0

----------------------------------------------------------------------------
\* what a status lists for the cache content cache
ShowsCache(status, cache) ==
    FailedResourcesOf(status) = {FailedResource(f) : f \in GetStatusSummary(cache)}

\* the object goes away only by the delete of someone else, is created only
\* by a pass that found it missing, and between the two only its status
\* changes
OnlyOthersDelete ==
    /\ crd.exists /\ ~crd'.exists
            => deletes' = deletes + 1 /\ statusPc' = statusPc
    /\ ~crd.exists /\ crd'.exists
            => statusPc = "Create" /\ ~fetched.exists
    /\ crd.exists /\ crd'.exists
            => crd' = [crd EXCEPT !.Status = crd'.Status]

\* C24: after someone else deleted the status object the controller creates
\* it again and gives it a status with lastUpdateTime set, and the status it
\* comes to show is the content of the failure cache, unless the cache
\* changes before; the controller never deletes the object, it calls Create
\* only when the object is missing, so there is never a second one, and
\* while the object exists it changes only its status.
C24_DeletedObjectRecreated ==
    /\ ~crd.exists ~> (crd.exists /\ crd.Status.LastUpdateTime # NoTime)
    /\ \A cache \in {{}} \cup {{CacheEntry(key, err)} : key \in StatusKeys, err \in StatusErrors} :
            (~crd.exists /\ failedResourceCache = cache)
                ~> (\/ /\ crd.exists
                       /\ crd.Status.LastUpdateTime # NoTime
                       /\ ShowsCache(crd.Status, cache)
                    \/ failedResourceCache # cache)
    /\ [](statusPc = "Create" => ~crd.exists)
    /\ [][OnlyOthersDelete]_vars

\* the object was deleted by someone else and is back, with a status that
\* lists the failure the cache holds
C24_Witness ==
    /\ deletes = 1
    /\ crd.exists
    /\ crd.Status.LastUpdateTime # NoTime
    /\ failedResourceCache # {}
    /\ ShowsCache(crd.Status, failedResourceCache)
    /\ statusPc = "idle"

----------------------------------------------------------------------------
\* a status has the conditions Ready and Degraded and no other, Ready is
\* True exactly when Degraded is False, and that exactly when it lists no
\* failed resource
TwoConditions(status) ==
    /\ Len(status.Conditions.elems) = 2
    /\ {c.Type : c \in ConditionsOf(status)} = {"Ready", "Degraded"}
    /\ \A c \in ConditionsOf(status) : c.Status \in {"True", "False"}
    /\ ConditionOf(status, "Ready") = {"True"} <=> ConditionOf(status, "Degraded") = {"False"}
    /\ ConditionOf(status, "Ready") = {"True"} <=> Len(status.FailedResources.elems) = 0

\* a status lists each entry of the cache once, with its kind, name and message
OneElementPerEntry(status, cache) ==
    /\ Len(status.FailedResources.elems) = Cardinality(cache)
    /\ FailedResourcesOf(status)
            = {[Kind |-> e.ResourceKind, Name |-> e.ResourceName, Message |-> e.ErrorMessage] :
                    e \in cache}

\* C26: the status buildStatus returns has exactly two conditions, Ready and
\* Degraded; Ready is True exactly when Degraded is False, and that exactly
\* when failedResources is empty; failedResources has one element for each
\* entry of the cache, with the kind, name and message of the entry; the
\* status the API server holds after the patch has the same properties.
C26_BuiltStatusShape ==
    /\ statusPc = "Patch"
            => /\ TwoConditions(newStatus)
               /\ OneElementPerEntry(newStatus, failedResourceCache)
               /\ newStatus.LastUpdateTime # NoTime
    /\ crd.exists /\ crd.Status # NoStatus => TwoConditions(crd.Status)

\* a status built for a cache of two entries: Ready False, Degraded True
C26_Witness ==
    /\ statusPc = "Patch"
    /\ Cardinality(failedResourceCache) = 2
    /\ Len(newStatus.FailedResources.elems) = 2
    /\ ConditionOf(newStatus, "Ready") = {"False"}
    /\ ConditionOf(newStatus, "Degraded") = {"True"}

----------------------------------------------------------------------------
\* the fetched status shows what the cache holds: the same failed resources
\* and the conditions that go with them
ShowsSameContent(status, cache) ==
    /\ FailedResourcesOf(status)
            = {[Kind |-> e.ResourceKind, Name |-> e.ResourceName, Message |-> e.ErrorMessage] :
                    e \in cache}
    /\ ConditionsOf(normalized(status))
            = {buildConditions(Cardinality(cache), NoTime)[i] : i \in 1..2}

\* the pass is at the comparison with a fetched status that shows the
\* content of the cache
AtComparisonOfEqualContent ==
    /\ statusPc = "Patch"
    /\ fetched.exists
    /\ ShowsSameContent(fetched.Status, failedResourceCache)

\* C25: a status pass that fetched a status showing what the failure cache
\* holds finds the two equal in statusEqual and issues no patch, whatever the
\* time stamps are and whether the cache has no entry, one or several.
C25_AsStated ==
    AtComparisonOfEqualContent => statusEqual(fetched.Status, newStatus)

\* with exactly one entry in the cache the comparison finds the equal
\* content equal
C25_SingleEntryNotPatched ==
    AtComparisonOfEqualContent /\ Cardinality(failedResourceCache) = 1
        => statusEqual(fetched.Status, newStatus)

----------------------------------------------------------------------------
\* the cache has an entry of a resource that the lists of the pass did not return
GoneWithEntry(key) ==
    /\ key \in CacheKeys(failedResourceCache)
    /\ key \notin CurrentResources

\* the sweep reports as removed the entries of the resources that are gone,
\* each once and nothing else, and leaves the entries of the listed
\* resources in the cache
SweepRemovesTheGone ==
    pc = "cleanup" /\ pc' # "cleanup"
        => /\ ReportedKeys(NewReports) = {key \in CacheKeys(failedResourceCache) :
                                            key \notin CurrentResources}
           /\ Len(NewReports) = Cardinality(ReportedKeys(NewReports))
           /\ \A i \in 1..Len(NewReports) : NewReports[i].op = "Removed"
           /\ failedResourceCache'
                = {e \in failedResourceCache :
                        <<e.ResourceKind, e.ResourceName>> \in CurrentResources}

\* C21: when a controller pass gets past the readiness gate while the cache
\* holds the entry of a resource, of any of the four kinds, that is no
\* longer listed, the sweep removes the entry through ReportResourceRemoved,
\* the entry does not come back during the pass, and the status object comes
\* to list the resource no more; the sweep leaves the entries of the
\* resources that are still listed where they are.
C21_DeletedResourceSwept ==
    /\ \A key \in SweepKeys :
            (pc = "cleanup" /\ GoneWithEntry(key))
                ~> [](crd.exists /\ ~ShownFailed(key) /\ key \notin CacheKeys(failedResourceCache))
    /\ [][SweepRemovesTheGone]_vars
    /\ [](pc \notin GateStages \cup {"cleanup"} /\ reports # <<>>
            => \A key \in CacheKeys(failedResourceCache) : key \in CurrentResources)

\* the pass over the Underlay alone has swept the entry of the deleted L2VNI
\* and returned, and the status object lists no failed resource
C21_Witness ==
    /\ Len(apiConfig.Underlays) = 1
    /\ Len(apiConfig.L2VNIs) = 0
    /\ pc = "returned"
    /\ reports # <<>>
    /\ reports[1] = RemovedReport(L2VNIKind, L2Name(1))
    /\ failedResourceCache = {}
    /\ crd.exists
    /\ ShownResources = {}
    /\ ConditionOf(crd.Status, "Ready") = {"True"}

(* C27: with every create and update of an L3VNI admitted by the webhook,   *)
(* the objects of the store always pass ValidateL3VNIs and                  *)
(* ValidateHostSessions, also when two requests are handled at once, each   *)
(* validated against the store content it listed.                           *)

StoreValid ==
    /\ ~IsError(ValidateL3VNIs(store.L3VNIs).err)
    /\ ~IsError(ValidateHostSessions(store.L3VNIs, store.L3Passthrough).err)

\* C27 as the claim states it: at every moment the store passes the two
\* validators
C27_AsStated ==
    StoreValid

(* C30: the pipeline run twice on an unchanged resource set and an          *)
(* unchanged host leaves the host network after the second pass as it was   *)
(* after the first, and the second pass makes no host-network call beyond   *)
(* those of the first.                                                      *)

\* the first pass is over and configured the host without an error
FirstPassApplied ==
    /\ firstPass.done
    /\ ~IsError(firstPass.err)

\* the i-th call of this pass is the i-th call of the first
AsInFirstPass(i) ==
    /\ i <= Len(firstPass.calls)
    /\ calls[i].fn = firstPass.calls[i].fn
    /\ calls[i].arg = firstPass.calls[i].arg

\* the host answers this pass as it answered the first
HostAnswersAsBefore ==
    \A i \in DOMAIN calls : calls[i].ok

----------------------------------------------------------------------------
(* The passes after a recovery, checked under SpecRecovery *)

\* the pass is in the pipeline or at what follows it
RunsPipeline(stage) ==
    stage \notin GateStages \cup {"returned"}

\* the errors of the API calls that do not concern the router
ListErrors ==
    {<<"list failed">>, <<"failed to get node">>}

\* C31 as stated: after the router pod was deleted, each pass made while no
\* ready router is there, here while no router pod is listed at all, only
\* requeues after 5 seconds.
C31_AsStated ==
    (pc = "returned" /\ routerPod = "Gone" /\ result.err \notin ListErrors)
        => result = [RequeueAfter |-> RequeueSeconds, err |-> NoError]

\* the pipeline is entered at the gate alone, by a pass that found a router
\* pod that is Ready and ContainersReady
PipelineEnteredWhenReady ==
    ~RunsPipeline(pc) /\ RunsPipeline(pc')
        => /\ pc = "CanReconcile"
           /\ routerPod # "Gone"
           /\ PodIsReady(podReady, containersReady)

\* how a pass through the pipeline ends
PassOutcomes ==
    {o \in {"Success", "RecoverableFailure", "NonRecoverableFailure"} :
        \/ o = "Success" /\ result = NoResult /\ ~IsError(retErr) /\ RecoveryCalls = {}
        \/ o = "RecoverableFailure" /\ IsError(result.err) /\ IsError(retErr)
                /\ ~nonRecoverableHostError(retErr) /\ RecoveryCalls = {}
        \/ o = "NonRecoverableFailure" /\ IsError(result.err)
                /\ nonRecoverableHostError(retErr) /\ RecoveryCalls # {}}

\* C31, amended: the pipeline is run only by a pass that found a router pod
\* for which CanReconcile is true; a pass made while no router pod is listed
\* returns the error of the lookup and calls nothing; a pass that finds a
\* router pod that is not ready requeues after 5 seconds and calls nothing;
\* a pass past the gate ends in exactly one of Success, RecoverableFailure
\* and NonRecoverableFailure.
C31_NotReadyUntilRouterReady ==
    /\ [][PipelineEnteredWhenReady]_vars
    /\ [](pc = "returned" /\ routerPod = "Gone"
            => /\ IsError(result.err)
               /\ result.RequeueAfter = 0
               /\ calls = <<>>
               /\ reports = <<>>)
    /\ [](pc = "returned" /\ routerPod # "Gone" /\ ~PodIsReady(podReady, containersReady)
                /\ ~IsError(result.err)
            => /\ result = [RequeueAfter |-> RequeueSeconds, err |-> NoError]
               /\ calls = <<>>
               /\ reports = <<>>)
    /\ (pc = "cleanup") ~> (pc = "returned" /\ Cardinality(PassOutcomes) = 1)

\* the pod was deleted and created again, and a pass on the new pod ran the
\* pipeline and ended in Success
C31_Witness ==
    /\ pc = "returned"
    /\ routerPod = "Recreated"
    /\ PodIsReady(podReady, containersReady)
    /\ PassOutcomes = {"Success"}
    /\ CallsOf({"SetupUnderlay"}) # {}

----------------------------------------------------------------------------
(* The cleanup at the end of configureInterfaces, checked under Spec *)

CleanupCalls ==
    CallsOf({"RemoveNonConfiguredVNIs"})

\* the VNIs of the declared L3VNIs and L2VNIs
DeclaredVNIs ==
    {apiConfig.L3VNIs[i].VNI : i \in 1..Len(apiConfig.L3VNIs)}
        \cup {apiConfig.L2VNIs[i].VNI : i \in 1..Len(apiConfig.L2VNIs)}

\* the VNIs the call tells the host-network layer to keep
KeptBy(call) ==
    {call.arg[i] : i \in 1..Len(call.arg)}

\* each declared resource was set up, in apply order, and no Setup call failed
EverySetupSucceeded ==
    /\ \A i \in CallsOf(SetupCalls) : calls[i].ok
    /\ Cardinality(CallsOf(SetupCalls)) = Len(ApplyOrder)

\* the cleanup is given the declared VNIs to keep and runs after every Setup
\* call succeeded
CleanupKeepsDeclared ==
    /\ \A i \in CleanupCalls :
           /\ KeptBy(calls[i]) = DeclaredVNIs
           /\ \A earlier \in EarlierHosts :
                  /\ earlier.l3vnis \cap DeclaredVNIs
                        \subseteq HostAfterCall(earlier, calls[i]).l3vnis
                  /\ earlier.l2vnis \cap DeclaredVNIs
                        \subseteq HostAfterCall(earlier, calls[i]).l2vnis
           /\ \A j \in CallsOf(SetupCalls) : j < i
    /\ CleanupCalls # {} => EverySetupSucceeded
    /\ Cardinality(CleanupCalls) <= 1

\* C32 as stated: the cleanup is given exactly the declared VNIs, runs only
\* after every Setup call succeeded, and in a pass where it runs
\* RemovePassthrough is called iff no L3Passthrough is declared.
C32_AsStated ==
    /\ CleanupKeepsDeclared
    /\ pc = "done" /\ CleanupCalls # {}
            => (CallsOf({"RemovePassthrough"}) # {} <=> Len(apiConfig.L3Passthrough) = 0)

\* C32, amended: the cleanup is given exactly the VNIs of the declared L3VNIs
\* and L2VNIs, so no declared VNI is removed; it runs only after every
\* declared resource was set up with success; and RemovePassthrough is
\* called, once and after the cleanup, iff the cleanup of the VNIs succeeded
\* and no L3Passthrough is declared.
C32_CleanupKeepsDeclaredVNIs ==
    /\ CleanupKeepsDeclared
    /\ \A i \in CallsOf({"RemovePassthrough"}) :
           /\ Len(apiConfig.L3Passthrough) = 0
           /\ i = Len(calls)
           /\ i - 1 \in CleanupCalls
           /\ calls[i - 1].ok
    /\ pc = "done" /\ CleanupCalls # {}
            => (CallsOf({"RemovePassthrough"}) # {}
                    <=> /\ Len(apiConfig.L3Passthrough) = 0
                        /\ \A i \in CleanupCalls : calls[i].ok)

\* an L3VNI and an L2VNI of different VNIs were set up, the cleanup was told
\* to keep the two VNIs, and the passthrough was removed
C32_Witness ==
    /\ pc = "done"
    /\ ~IsError(retErr)
    /\ Len(apiConfig.L3VNIs) > 0
    /\ Len(apiConfig.L2VNIs) > 0
    /\ Cardinality(DeclaredVNIs) > 1
    /\ \E i \in CleanupCalls : KeptBy(calls[i]) = DeclaredVNIs
    /\ CallsOf({"RemovePassthrough"}) # {}

----------------------------------------------------------------------------
(* GetStatusSummary beside the reports, checked under SpecSummary *)

\* the list holds entries of the cache c, each key once
ListFrom(c) ==
    /\ Len(summary.read) = Cardinality(KeysRead)
    /\ \A i \in 1..Len(summary.read) :
           [ResourceKind |-> summary.read[i].Kind, ResourceName |-> summary.read[i].Name,
            ErrorMessage |-> summary.read[i].ErrorMessage] \in c

\* the list is the content of the cache c, each entry once
ListOf(c) ==
    /\ ListFrom(c)
    /\ KeysRead = CacheKeys(c)

\* C33: the list GetStatusSummary returns is the content the cache had at one
\* instant between the call and the return, each key once; while the list
\* is built no report is applied, and a report waits at its lock.
C33_SummaryIsSnapshot ==
    /\ summary.pc = "returned" => \E c \in summary.instants : ListOf(c)
    /\ summary.pc = "range" =>
           /\ mutex = "reader"
           /\ reportPc # "Locked"
           /\ ListFrom(failedResourceCache)
    /\ reportPc = "Locked" => mutex = "writer" /\ summary.pc # "range"

\* a list of two entries was returned after a report had waited for the read
\* lock to be released
C33_Witness ==
    /\ summary.pc = "returned"
    /\ Len(summary.read) = 2
    /\ reportPc = "Lock"
    /\ reportOp.op = "Success"

----------------------------------------------------------------------------
(* C34 *)

PassesInProgress ==
    {w \in DOMAIN workers.pass : workers.pass[w].pc # "idle"}

OnePassAtATime ==
    Cardinality(PassesInProgress) <= 1

PatchesInSnapshotOrder ==
    workers'.patched >= workers.patched

\* C34: at most one status reconcile pass runs at a time, and the snapshot a
\* patch writes to the status object is never older than the snapshot of the
\* patch it overwrites.
C34_PatchesInSnapshotOrder ==
    /\ []OnePassAtATime
    /\ [][PatchesInSnapshotOrder]_vars

\* a second patch has reached the object after an earlier one, and a pass with
\* a still newer snapshot is about to patch
C34_Witness ==
    /\ pc = "workers"
    /\ workers.patched = 2
    /\ \E w \in DOMAIN workers.pass :
        /\ workers.pass[w].pc = "Patch"
        /\ workers.pass[w].built = 3

----------------------------------------------------------------------------
(* C35 *)

\* the list in another order
Reordered(list, p) ==
    [i \in 1..Len(list) |-> list[p[i]]]

Orders(list) ==
    Permutations(1..Len(list))

UnderlaysInAnyOrder ==
    \A p \in Orders(apiConfig.Underlays) :
        IsError(ValidateUnderlays(Reordered(apiConfig.Underlays, p)).err) = IsError(retErr)

L3VNIsInAnyOrder ==
    \A p \in Orders(apiConfig.L3VNIs) :
        IsError(ValidateL3VNIs(Reordered(apiConfig.L3VNIs, p)).err) = IsError(retErr)

L2VNIsInAnyOrder ==
    \A p \in Orders(apiConfig.L2VNIs) :
        IsError(ValidateL2VNIs(Reordered(apiConfig.L2VNIs, p)).err) = IsError(retErr)

HostSessionsInAnyOrder ==
    \A p \in Orders(apiConfig.L3VNIs), q \in Orders(apiConfig.L3Passthrough) :
        IsError(ValidateHostSessions(Reordered(apiConfig.L3VNIs, p),
                                     Reordered(apiConfig.L3Passthrough, q)).err)
            = IsError(retErr)

\* C35: whether ValidateUnderlays, ValidateL3VNIs, ValidateL2VNIs and
\* ValidateHostSessions return an error or nil is the same for every order of
\* the resources in their input lists.
C35_VerdictIgnoresOrder ==
    /\ pc = "ValidateUnderlays" => UnderlaysInAnyOrder
    /\ pc = "ValidateL3VNIs" => L3VNIsInAnyOrder
    /\ pc = "ValidateL2VNIs" => L2VNIsInAnyOrder
    /\ pc = "ValidateHostSessions" => HostSessionsInAnyOrder

\* ValidateHostSessions has refused two overlapping sessions and reports the
\* other resource when the list is turned round
C35_Witness ==
    /\ pc = "ValidateHostSessions"
    /\ IsError(retErr)
    /\ Len(apiConfig.L3VNIs) = 2
    /\ \E p \in Orders(apiConfig.L3VNIs) :
        LET other == ValidateHostSessions(Reordered(apiConfig.L3VNIs, p),
                                          apiConfig.L3Passthrough)
        IN  /\ IsError(other.err)
            /\ other.reports # reports

----------------------------------------------------------------------------
(* C36 *)

\* C36 as stated: the wait for the API server never blocks indefinitely, so
\* waitForKubernetes returns in the end, with the configuration or an error.
C36_AsStated ==
    <>(startup.pc = "returned")

\* what holds of the wait: it returns only the configuration of a successful
\* ping and no error, and a failed ping is followed by the next one
C36_ReturnsOnSuccessOnly ==
    /\ [](startup.pc = "returned" =>
            /\ startup.config
            /\ startup.err = NoError
            /\ ~IsError(pingAPIServer(startup.kubeconfig, startup.server).err))
    /\ (pc = "startup" /\ startup.pc = "wait") ~> (startup.pc = "ping")

C36_Witness ==
    /\ startup.pc = "returned"
    /\ startup.pings = 2
    /\ startup.lastErr = <<"failed to get serverversion">>

----------------------------------------------------------------------------
(* C37 *)

\* the pass went through the gate with the router ready and returned
\* ctrl.Result{}, nil
ReturnedSuccess ==
    /\ pc = "returned"
    /\ result = NoResult
    /\ ~IsError(retErr)
    /\ podReady
    /\ containersReady

\* C37: when a pass of the configuration controller returns success with the
\* router ready, the failure cache has no entry.
C37_SuccessLeavesCacheEmpty ==
    ReturnedSuccess => CacheKeys(failedResourceCache) = {}

\* a pass that began with the entry of a resource that is no longer listed
\* has swept it and returned success
C37_Witness ==
    /\ ReturnedSuccess
    /\ \E i \in 1..Len(reports) : reports[i].op = "Removed"
    /\ CacheKeys(failedResourceCache) = {}

----------------------------------------------------------------------------
(* C38 *)

\* no Underlay is declared, the namespace has no underlay interface, and
\* HasUnderlayInterface has answered
NothingToConfigure ==
    /\ Len(apiConfig.Underlays) = 0
    /\ ~hostHasUnderlay
    /\ \E i \in 1..Len(calls) : calls[i].fn = "HasUnderlayInterface" /\ calls[i].ok

----------------------------------------------------------------------------
(* C39 *)

\* the LocalCIDR of the object: the two texts of the field, both empty for
\* an object without a HostSession
LocalCIDROf(l3vni) ==
    IF l3vni.HostSession.set
        THEN [IPv4 |-> l3vni.HostSession.IPv4, IPv6 |-> l3vni.HostSession.IPv6]
        ELSE [IPv4 |-> EmptyCIDR, IPv6 |-> EmptyCIDR]

\* an update whose object has another LocalCIDR than the stored one
ChangesLocalCIDR(request) ==
    /\ request.Operation = "UPDATE"
    /\ LocalCIDROf(request.oldL3VNI[1]) # LocalCIDROf(request.l3vni)

UpdatesKeepLocalCIDR ==
    \A a \in DOMAIN admissions :
        ChangesLocalCIDR(admissions[a]) => admissions[a].step \in {"Handle", "Denied"}

DeletesAdmitted ==
    \A a \in DOMAIN admissions :
        admissions[a].Operation = "DELETE" =>
            admissions[a].step \in {"Handle", "Allowed", "Stored", "Conflict"}

\* the stored object of the name keeps its LocalCIDR in every step that
\* leaves an object of the name in the store
StoredLocalCIDRKept ==
    \A i \in 1..MaxPassVNIs :
        (StoredAs(L3Name(i)) # <<>> /\ StoredAs(L3Name(i))' # <<>>) =>
            LocalCIDROf(StoredAs(L3Name(i))'[1]) = LocalCIDROf(StoredAs(L3Name(i))[1])

\* C39: the L3VNI webhook denies every update whose HostSession LocalCIDR
\* differs from the stored one, an absent HostSession counting as an empty
\* LocalCIDR, so the LocalCIDR of a stored L3VNI stays what it was at its
\* creation through all admitted updates; and a delete is never denied.
C39_LocalCIDRImmutable ==
    /\ []UpdatesKeepLocalCIDR
    /\ []DeletesAdmitted
    /\ [][StoredLocalCIDRKept]_vars

\* an update that changes the session but not its LocalCIDR was stored, and
\* an update to another LocalCIDR was denied
C39_Witness ==
    /\ pc = "webhook"
    /\ \E a \in DOMAIN admissions :
        /\ admissions[a].Operation = "UPDATE"
        /\ admissions[a].step = "Stored"
        /\ admissions[a].l3vni # admissions[a].oldL3VNI[1]
    /\ \E a \in DOMAIN admissions :
        /\ ChangesLocalCIDR(admissions[a])
        /\ admissions[a].step = "Denied"

====
